---- MODULE Spec2Model ----
(***************************************************************************)
(* Model of the data-synchronisation logic of two React components:        *)
(*   MyMeals          (src/meals.tsx)    - the flat, paginated meal list    *)
(*   MealPlanCalendar (src/calendar.tsx) - the date-bucketed meal calendar  *)
(*                                                                         *)
(* React semantics kept by the model: a function defined in the component  *)
(* body reads the state of the render that created it (its closure), state *)
(* setters called in one synchronous run are applied together, and after   *)
(* every commit the effects whose dependencies changed run, until no       *)
(* effect has anything left to do.  Every await is a suspension point:     *)
(* a call in progress is a record in a bag, holding its closure and the    *)
(* place it is suspended at.                                               *)
(***************************************************************************)
EXTENDS Integers, Sequences, FiniteSets, Bags, TLC

\* ---------------------------------------------------------------- bounds
\* records the remote source holds beyond one full page
ExtraRecords == 3
\* user gestures (refresh, scroll, search, filter) and changes of the
\* environment (session, network) in one run
MaxEvents == 1
\* presses of a favorite button in one run
MaxToggles == 2
\* fetchMyMeals calls suspended and timers pending at the same time
MaxPending == 2
\* automatic retries followed in one chain of failing attempts
MaxAttempts == 4
\* fetchMealsForWeek calls suspended at the same time
MaxWeeks == 2

\* ------------------------------------------------------ program constants
MEALS_PER_PAGE == 20
MIN_VISIBLE == 10
MAX_RETRIES == 3
BACKOFF_BASE_MS == 1000
CAL_MAX_RETRIES == 2
CAL_RETRY_DELAY_MS == 1000

\* ------------------------------------------------------------ text values
\* A string is a sequence of one-character strings; an error message is a
\* sequence of words.  null is the empty message.
Null == <<>>

AuthRequiredMsg == <<"Authentication", "required.", "Please", "log", "in", "again.">>
FetchFailedMsg == <<"Failed", "to", "fetch", "meals">>
NetworkMsg == <<"Network", "request", "failed">>
MealNotFoundMsg == <<"Meal", "not", "found">>
FavoriteFailedMsg == <<"Failed", "to", "update", "favorite", "status">>
FavoriteRetryMsg == <<"Failed", "to", "update", "favorite", "status.", "Please", "try", "again.">>

\* error.message?.includes("Authentication")
Includes(msg, word) == \E i \in DOMAIN msg : msg[i] = word

\* error.message || fallback
OrElse(msg, fallback) == IF msg = <<>> THEN fallback ELSE msg

\* String.prototype.startsWith
StartsWith(s, prefix) ==
  /\ Len(s) >= Len(prefix)
  /\ SubSeq(s, 1, Len(prefix)) = prefix

\* String.prototype.includes on character sequences
IncludesStr(s, q) ==
  \E i \in 0..(Len(s) - Len(q)) : SubSeq(s, i + 1, i + Len(q)) = q

LowerOf(c) ==
  CASE c = "A" -> "a"
    [] c = "B" -> "b"
    [] c = "C" -> "c"
    [] OTHER -> c

\* String.prototype.toLowerCase
ToLowerCase(s) == [i \in DOMAIN s |-> LowerOf(s[i])]

DigitValue(c) ==
  CASE c = "0" -> 0 [] c = "1" -> 1 [] c = "2" -> 2 [] c = "3" -> 3
    [] c = "4" -> 4 [] c = "5" -> 5 [] c = "6" -> 6 [] c = "7" -> 7
    [] c = "8" -> 8 [] c = "9" -> 9 [] OTHER -> -1

IsDigit(c) == DigitValue(c) >= 0

RECURSIVE DigitsPrefix(_, _, _)
DigitsPrefix(s, i, acc) ==
  IF i > Len(s) \/ ~IsDigit(s[i]) THEN acc
  ELSE DigitsPrefix(s, i + 1, acc * 10 + DigitValue(s[i]))

\* parseFloat on unsigned integer text: the longest digit prefix, NaN when
\* there is none.
NaN == [nan |-> TRUE, v |-> 0]
ParseFloat(s) ==
  IF Len(s) = 0 \/ ~IsDigit(s[1]) THEN NaN
  ELSE [nan |-> FALSE, v |-> DigitsPrefix(s, 1, 0)]

\* ------------------------------------------------------------ the records
\* A record of the flat list carries its id and its favorite flag; the
\* other columns of a row are fixed functions of the id (the remote rows
\* do not change except for the favorite flag).
NameOf(id) == IF id % 5 = 0 THEN <<"A", "b">> ELSE <<"c", "d">>
DescriptionOf(id) == IF id % 7 = 0 THEN <<"x", "a">> ELSE <<"y">>
DietaryOf(id) == IF id % 2 = 0 THEN "vegan" ELSE ""
CuisineOf(id) == IF id % 4 = 0 THEN "italian" ELSE ""
CreatedByAiOf(id) == id % 3 = 0
NutritionOf(id, type) ==
  CASE type = "calories" -> id * 100
    [] type = "fat" -> id
    [] type = "protein" -> id + 1
    [] type = "carbohydrates" -> id + 2

Meal(id, fav) == [id |-> id, favorite |-> fav]

DefaultFilters ==
  << [type |-> "calories", greaterThan |-> <<>>, lessThan |-> <<>>],
     [type |-> "fat", greaterThan |-> <<>>, lessThan |-> <<>>],
     [type |-> "protein", greaterThan |-> <<>>, lessThan |-> <<>>],
     [type |-> "carbohydrates", greaterThan |-> <<>>, lessThan |-> <<>>] >>

\* a numeric filter that reads an empty bound as 0 (Number(""))
PassesFilterEmptyAsZero(meal, filter) ==
  LET Value(text) == IF text = <<>> THEN [nan |-> FALSE, v |-> 0] ELSE ParseFloat(text)
      mealValue == NutritionOf(meal.id, filter.type)
  IN /\ ~(~Value(filter.greaterThan).nan /\ mealValue <= Value(filter.greaterThan).v)
     /\ ~(~Value(filter.lessThan).nan /\ mealValue >= Value(filter.lessThan).v)

\* a numeric filter whose bounds are inclusive
PassesFilterInclusive(meal, filter) ==
  LET greaterThanValue == ParseFloat(filter.greaterThan)
      lessThanValue == ParseFloat(filter.lessThan)
      mealValue == NutritionOf(meal.id, filter.type)
  IN /\ ~(~greaterThanValue.nan /\ mealValue < greaterThanValue.v)
     /\ ~(~lessThanValue.nan /\ mealValue > lessThanValue.v)

\* meals.tsx 540-557: one numeric filter against one record
PassesFilter(meal, filter) ==
  LET greaterThanValue == ParseFloat(filter.greaterThan)
      lessThanValue == ParseFloat(filter.lessThan)
      mealValue == NutritionOf(meal.id, filter.type)
  IN /\ ~(~greaterThanValue.nan /\ mealValue <= greaterThanValue.v)
     /\ ~(~lessThanValue.nan /\ mealValue >= lessThanValue.v)

\* meals.tsx 559-562
PassesSearch(meal, query) ==
  \/ query = <<>>
  \/ IncludesStr(ToLowerCase(NameOf(meal.id)), ToLowerCase(query))
  \/ IncludesStr(ToLowerCase(DescriptionOf(meal.id)), ToLowerCase(query))

\* an evaluation that lists the records whose name matches the query first
EvaluateNameMatchesFirst(ms, fs, query) ==
  LET Keep(meal) ==
        /\ \A i \in DOMAIN fs : PassesFilter(meal, fs[i])
        /\ PassesSearch(meal, query)
      ByName(meal) ==
        Keep(meal) /\ IncludesStr(ToLowerCase(NameOf(meal.id)), ToLowerCase(query))
      NotByName(meal) == Keep(meal) /\ ~ByName(meal)
  IN SelectSeq(ms, ByName) \o SelectSeq(ms, NotByName)

\* meals.tsx 539-565: meals.filter(...)
Evaluate(ms, fs, query) ==
  LET Keep(meal) ==
        /\ \A i \in DOMAIN fs : PassesFilter(meal, fs[i])
        /\ PassesSearch(meal, query)
  IN SelectSeq(ms, Keep)


\* ------------------------------------------------------------- the state
VARIABLES
  mounted,        \* which component is on screen: "MyMeals" or "MealPlanCalendar"
  myMeals,        \* the useState values of MyMeals (meals.tsx 34-72)
  fetches,        \* bag of suspended fetchMyMeals calls
  retryTimers,    \* bag of pending retry timers (meals.tsx 508-511)
  backfillTimers, \* bag of pending backfill timers (meals.tsx 575)
  toggles,        \* bag of suspended toggleFavorite calls
  applying,       \* bag of suspended applyFilters / clearFilters calls
  calendar,       \* the useState values of MealPlanCalendar (calendar.tsx 47-54)
  dateFetches,    \* bag of suspended fetchMealsForDate calls
  weeks,          \* bag of suspended fetchMealsForWeek calls
  planCache,      \* what cachedDataService.getMealsForDate holds, per date
  remotePlan,     \* rows of the owner in "meal_plan" and "macro_meals", per date
  mutations,      \* bag of suspended deleteAllMealsForDate, deleteMacroMeal
                  \* and scanMealImage calls
  remoteCount,    \* rows of the owner in the remote table "meals"
  remoteFavorite, \* ids whose remote favorite column is true
  cachedMeals,    \* what cachedDataService.getUserMeals holds for the owner
  storage,        \* the AsyncStorage entries of the owner
  signedIn,       \* does supabase.auth.getUser() give a user
  online,         \* do the calls to the remote source succeed
  events,         \* user gestures so far
  lastOp          \* the operation that acted last, and how it ended

vars == << mounted, myMeals, fetches, retryTimers, backfillTimers, toggles,
           applying, calendar, dateFetches, weeks, planCache, remotePlan, mutations, remoteCount,
           remoteFavorite, cachedMeals, storage, signedIn, online, events, lastOp >>

Min(a, b) == IF a < b THEN a ELSE b

\* 2^n, Math.pow(2, n)
RECURSIVE Pow2(_)
Pow2(n) == IF n <= 0 THEN 1 ELSE 2 * Pow2(n - 1)

\* ------------------------------------------------------ the remote source
\* ids of the rows, in descending order
RECURSIVE IdsDescending(_)
IdsDescending(n) == IF n = 0 THEN <<>> ELSE <<n>> \o IdsDescending(n - 1)

\* meals.tsx 473-476: the equality filters added to the query
MatchesQuery(id, dietary, ai, cuisine) ==
  /\ dietary = "" \/ DietaryOf(id) = dietary
  /\ ai # "ai" \/ CreatedByAiOf(id)
  /\ ai # "not_ai" \/ ~CreatedByAiOf(id)
  /\ cuisine = "" \/ CuisineOf(id) = cuisine

\* meals.tsx 465-470: rows of the owner, favorite descending, then id descending
RemoteRows(count, favs, dietary, ai, cuisine) ==
  LET ids == IdsDescending(count)
      IsFav(id) == id \in favs /\ MatchesQuery(id, dietary, ai, cuisine)
      NotFav(id) == id \notin favs /\ MatchesQuery(id, dietary, ai, cuisine)
      first == SelectSeq(ids, IsFav)
      rest == SelectSeq(ids, NotFav)
  IN [i \in 1..Len(first) |-> Meal(first[i], TRUE)]
       \o [i \in 1..Len(rest) |-> Meal(rest[i], FALSE)]

\* meals.tsx 463, 471: .range(offset, offset + MEALS_PER_PAGE - 1)
RemotePage(rows, pageToLoad) ==
  LET offset == pageToLoad * MEALS_PER_PAGE
  IN SubSeq(rows, offset + 1, Min(offset + MEALS_PER_PAGE, Len(rows)))

\* messages a failing remote call can carry
RemoteErrorMessages == { NetworkMsg }

\* what does not change while MyMeals runs, apart from the gestures counted
Environment == << mounted, calendar, dateFetches, weeks, planCache, remotePlan, mutations, remoteCount,
                  cachedMeals, storage, signedIn, online >>

\* ------------------------------------------------------------ identifiers
\* mealId: number | string
NumId(n) == [type |-> "number", n |-> n, s |-> <<>>]
StrId(s) == [type |-> "string", n |-> 0, s |-> s]
MacroPrefix == <<"m", "a", "c", "r", "o", "_">>
Macro42 == StrId(MacroPrefix \o <<"4", "2">>)
AbsentId == NumId(99)
ToggleArgs == { NumId(1), NumId(MEALS_PER_PAGE), AbsentId, Macro42 }

\* meal.id === mealId, for a row whose id is a number
SameId(meal, mealId) == mealId.type = "number" /\ mealId.n = meal.id

\* an id test that knows no derived records
IsNeverMacroId(mealId) == FALSE

\* meals.tsx 299
IsMacroId(mealId) == mealId.type = "string" /\ StartsWith(mealId.s, MacroPrefix)

\* --------------------------------------------------------------- closures
\* what fetchMyMeals reads from the render that created it (deps, line 518)
FetchClosure(s) ==
  [ filtersLoaded |-> s.filtersLoaded,
    dietaryRestrictionFilter |-> s.dietaryRestrictionFilter,
    aiFilter |-> s.aiFilter,
    cuisineFilter |-> s.cuisineFilter,
    retryCount |-> s.retryCount,
    currentPage |-> s.currentPage ]

\* what loadMoreMeals reads from the render that created it (deps, line 529)
LoadMoreClosure(s) ==
  [ loadingMore |-> s.loadingMore,
    hasMoreMeals |-> s.hasMoreMeals,
    filteredMealsReady |-> s.filteredMealsReady,
    fetch |-> FetchClosure(s) ]

CategoricalOf(s) ==
  << s.dietaryRestrictionFilter, s.aiFilter, s.cuisineFilter >>

UseCacheNever(loadMore, c) == FALSE

\* meals.tsx 445
UseCache(loadMore, c) ==
  ~loadMore /\ c.dietaryRestrictionFilter = "" /\ c.aiFilter = "" /\ c.cuisineFilter = ""

\* meals.tsx 446
PageToLoad(loadMore, c) == IF loadMore THEN c.currentPage + 1 ELSE 0

FetchStartedKeepingCursor(s, isRefresh, loadMore) ==
  IF isRefresh
    THEN [s EXCEPT !.refreshing = TRUE, !.error = Null,
                   !.filteredMealsReady = FALSE]
  ELSE IF loadMore
    THEN [s EXCEPT !.loadingMore = TRUE]
  ELSE [s EXCEPT !.loading = TRUE, !.error = Null, !.filteredMealsReady = FALSE]

\* meals.tsx 423-437: the setters fetchMyMeals calls before its first await
FetchStarted(s, isRefresh, loadMore) ==
  IF isRefresh
    THEN [s EXCEPT !.refreshing = TRUE, !.error = Null, !.currentPage = 0,
                   !.hasMoreMeals = TRUE, !.filteredMealsReady = FALSE]
  ELSE IF loadMore
    THEN [s EXCEPT !.loadingMore = TRUE]
  ELSE [s EXCEPT !.loading = TRUE, !.error = Null, !.filteredMealsReady = FALSE]

\* meals.tsx 419-439: fetchMyMeals up to its first await.  s is the state
\* the setters act on, c the closure of the function that is called,
\* attempt the number of automatic retries that led to this call, and now
\* the categorical filters of the render on screen when it is called.  The
\* call that replaces the list also records whether calls were in flight
\* when it was made (behind) and whether a call made after it has been
\* answered (overtaken).
CallFetchMyMeals(s, c, isRefresh, loadMore, attempt, now) ==
  IF ~c.filtersLoaded THEN [s |-> s, reqs |-> EmptyBag]
  ELSE [ s |-> FetchStarted(s, isRefresh, loadMore),
         reqs |-> SetToBag({ [ isRefresh |-> isRefresh, loadMore |-> loadMore,
                               c |-> c, pc |-> "auth", attempt |-> attempt,
                               issuedUnder |-> now,
                               behind |-> IF loadMore THEN 0
                                          ELSE Min(1, BagCardinality(fetches)),
                               overtaken |-> FALSE ] }) ]

\* the calls left in flight when the response of the call r has been
\* applied: a load made when nothing was in flight, and still in flight now,
\* was made before r
Overtaking(r, rest) ==
  LET Marked(q) == IF ~r.loadMore /\ ~q.loadMore /\ q.behind = 0
                     THEN [q EXCEPT !.overtaken = TRUE] ELSE q
  IN BagOfAll(Marked, rest)

\* how a response is named by the step that applies it
Late(r) == IF r.overtaken THEN <<"overtaken">> ELSE Null

\* a merge that drops the response of a call that was overtaken
FetchSucceededIfLatest(s, r, newMeals) ==
  IF r.overtaken
    THEN [ s EXCEPT !.loading = FALSE, !.refreshing = FALSE, !.loadingMore = FALSE ]
  ELSE [ s EXCEPT
           !.meals = IF r.loadMore THEN s.meals \o newMeals ELSE newMeals,
           !.currentPage = IF r.loadMore THEN PageToLoad(TRUE, r.c) ELSE 0,
           !.hasMoreMeals = (Len(newMeals) = MEALS_PER_PAGE),
           !.retryCount = 0,
           !.loading = FALSE, !.refreshing = FALSE, !.loadingMore = FALSE ]

\* a merge that shows the fetched page alone
FetchSucceededReplacing(s, r, newMeals) ==
  [ s EXCEPT
      !.meals = newMeals,
      !.currentPage = IF r.loadMore THEN PageToLoad(TRUE, r.c) ELSE 0,
      !.hasMoreMeals = (Len(newMeals) = MEALS_PER_PAGE),
      !.retryCount = 0,
      !.loading = FALSE, !.refreshing = FALSE, !.loadingMore = FALSE ]

\* meals.tsx 488-498 and 513-517: a response is applied
FetchSucceeded(s, r, newMeals) ==
  [ s EXCEPT
      !.meals = IF r.loadMore THEN s.meals \o newMeals ELSE newMeals,
      !.currentPage = IF r.loadMore THEN PageToLoad(TRUE, r.c) ELSE 0,
      !.hasMoreMeals = (Len(newMeals) = MEALS_PER_PAGE),
      !.retryCount = 0,
      !.loading = FALSE, !.refreshing = FALSE, !.loadingMore = FALSE ]

\* a retry test that does not look at the message
ShouldRetryAnyError(r, msg) == r.c.retryCount < MAX_RETRIES

\* meals.tsx 506: is the failed call retried
ShouldRetry(r, msg) ==
  r.c.retryCount < MAX_RETRIES /\ ~Includes(msg, "Authentication")

\* meals.tsx 507
RetryDelay(r) == Pow2(r.c.retryCount) * BACKOFF_BASE_MS

\* meals.tsx 508-511: the timer set for a failed call
RetryTimerFor(r, msg) ==
  IF ShouldRetry(r, msg)
    THEN SetToBag({ [ isRefresh |-> r.isRefresh, loadMore |-> r.loadMore,
                      c |-> r.c, delay |-> RetryDelay(r),
                      attempt |-> r.attempt + 1 ] })
  ELSE EmptyBag

\* meals.tsx 500-503 and 513-517
FetchFailed(s, msg) ==
  [ s EXCEPT !.error = msg,
             !.loading = FALSE, !.refreshing = FALSE, !.loadingMore = FALSE ]

\* ---------------------------------------------------------------- effects
\* meals.tsx 536: dependencies of the filter-change effect
FilterDepsChanged(p, c) ==
  \/ p.filtersLoaded # c.filtersLoaded
  \/ p.dietaryRestrictionFilter # c.dietaryRestrictionFilter
  \/ p.aiFilter # c.aiFilter
  \/ p.cuisineFilter # c.cuisineFilter

\* meals.tsx 518, 529: is loadMoreMeals a new function in render c
LoadMoreChanged(p, c) == LoadMoreClosure(p) # LoadMoreClosure(c)

EvaluationDepsChangedByData(p, c, touched) ==
  \/ p.searchQuery # c.searchQuery
  \/ "filters" \in touched
  \/ "meals" \in touched

\* meals.tsx 577: dependencies of the evaluation effect; touched names the
\* arrays that were set to a new array
EvaluationDepsChanged(p, c, touched) ==
  \/ p.searchQuery # c.searchQuery
  \/ "filters" \in touched
  \/ "meals" \in touched
  \/ p.loading # c.loading
  \/ LoadMoreChanged(p, c)

\* meals.tsx 525-529: would loadMoreMeals of closure lm issue a request
LoadMoreGuard(lm) ==
  ~lm.loadingMore /\ lm.hasMoreMeals /\ lm.filteredMealsReady

BackfillWantedOnFirstPage(c, filtered) ==
  /\ Len(filtered) < MIN_VISIBLE
  /\ c.hasMoreMeals
  /\ ~c.loadingMore
  /\ Len(c.meals) > 0
  /\ c.currentPage = 0

\* meals.tsx 574: is a backfill timer set by the evaluation of render c
BackfillWanted(c, filtered) ==
  /\ Len(filtered) < MIN_VISIBLE
  /\ c.hasMoreMeals
  /\ ~c.loadingMore
  /\ Len(c.meals) > 0

\* meals.tsx 575: the timer calls the loadMoreMeals of render c.  A timer
\* whose closure fails the guard of loadMoreMeals does nothing when it
\* fires, at whatever time it fires, and is not kept.
BackfillTimerFor(c, filtered) ==
  IF BackfillWanted(c, filtered) /\ LoadMoreGuard(LoadMoreClosure(c))
    THEN SetToBag({ LoadMoreClosure(c) })
  ELSE EmptyBag

\* a filter-change effect that keeps the cursor
FilterChangeEffectKeepingCursor(c, s) ==
  CallFetchMyMeals(s, FetchClosure(c), FALSE, FALSE, 0, CategoricalOf(c))

\* meals.tsx 531-536, run in render c; s collects the queued updates
FilterChangeEffect(c, s) ==
  CallFetchMyMeals([s EXCEPT !.currentPage = 0, !.hasMoreMeals = TRUE],
                   FetchClosure(c), FALSE, FALSE, 0, CategoricalOf(c))

\* meals.tsx 567-576: what the evaluation effect of render c does with the
\* list it computed; s collects the queued updates
Evaluated(c, s, filtered) ==
  [ s |-> [s EXCEPT !.filteredMeals = filtered,
                    !.filteredMealsReady =
                       IF ~c.loading \/ Len(c.meals) > 0 THEN TRUE ELSE @],
    timers |-> BackfillTimerFor(c, filtered) ]

\* meals.tsx 538-577, run in render c; s collects the queued updates
EvaluationEffect(c, s) ==
  Evaluated(c, s, Evaluate(c.meals, c.filters, c.searchQuery))

\* meals.tsx 531-536, if its dependencies changed since render p
FirstEffect(p, c) ==
  IF FilterDepsChanged(p, c) THEN FilterChangeEffect(c, c)
  ELSE [s |-> c, reqs |-> EmptyBag]

\* meals.tsx 538-577, if its dependencies changed since render p; e1 is
\* what the effect before it left
SecondEffect(p, c, touched, e1) ==
  IF EvaluationDepsChanged(p, c, touched)
    THEN [ reqs |-> e1.reqs, e |-> EvaluationEffect(c, e1.s) ]
  ELSE [ reqs |-> e1.reqs, e |-> [s |-> e1.s, timers |-> EmptyBag] ]

\* the calls and timers of two rounds of effects
Merged(e2, rest) ==
  [ s |-> rest.s,
    reqs |-> e2.reqs (+) rest.reqs,
    timers |-> e2.e.timers (+) rest.timers ]

\* The effects of render c, whose previous render was p, and of the renders
\* their updates cause.
RECURSIVE RunEffects(_, _, _)
RECURSIVE NextRender(_, _)
NextRender(c, e2) == Merged(e2, RunEffects(c, e2.e.s, {}))

RunEffects(p, c, touched) ==
  IF ~FilterDepsChanged(p, c) /\ ~EvaluationDepsChanged(p, c, touched)
    THEN [s |-> c, reqs |-> EmptyBag, timers |-> EmptyBag]
  ELSE NextRender(c, SecondEffect(p, c, touched, FirstEffect(p, c)))


\* ------------------------------------------------------------------- Init
\* an AsyncStorage entry: absent (getItem gives null), or a text, which may
\* be the empty text; v0 is the value an absent or empty entry carries
NoItem(v0) == [present |-> FALSE, blank |-> TRUE, value |-> v0]
Blank(v0) == [present |-> TRUE, blank |-> TRUE, value |-> v0]
Item(v) == [present |-> TRUE, blank |-> FALSE, value |-> v]

\* JSON.stringify / JSON.parse of the filter array: the text is kept as the
\* tagged value it encodes
Stringify(fs) == [json |-> fs]
Parse(text) == text.json

CaloriesAbove(text) ==
  [DefaultFilters EXCEPT ![1] = [@ EXCEPT !.greaterThan = text]]

EmptyStorage ==
  [ filters |-> NoItem(Stringify(DefaultFilters)), searchQuery |-> NoItem(<<>>),
    dietaryRestrictionFilter |-> NoItem(""), aiFilter |-> NoItem(""),
    cuisineFilter |-> NoItem("") ]

\* what the owner's storage can hold when the component mounts
StorageProfiles ==
  { EmptyStorage,
    [EmptyStorage EXCEPT !.searchQuery = Item(<<"a">>)],
    [EmptyStorage EXCEPT !.dietaryRestrictionFilter = Item("vegan")],
    [EmptyStorage EXCEPT !.filters = Item(Stringify(CaloriesAbove(<<"1", "5", "0", "0">>)))] }

RemoteCounts == { 0, MEALS_PER_PAGE, MEALS_PER_PAGE + ExtraRecords }

\* meals.tsx 34-72, and the effects of the first render: the filter-change
\* effect returns at once (filtersLoaded is false) and the evaluation of
\* the empty list leaves filteredMealsReady false.  filters and tempFilters
\* start as two arrays of objects of their own (38-59); sharedFilterObjects
\* says that they hold the same objects, which they do once an array was
\* given to both setters or tempFilters was given to setFilters (380-381,
\* 611-612, 670).  filtersInUse is the value last given to setFilters.
InitialMyMeals ==
  [ meals |-> <<>>, filteredMeals |-> <<>>, filteredMealsReady |-> FALSE,
    searchQuery |-> <<>>, filters |-> DefaultFilters, tempFilters |-> DefaultFilters,
    sharedFilterObjects |-> FALSE, filtersInUse |-> DefaultFilters,
    loading |-> TRUE, refreshing |-> FALSE, error |-> Null, retryCount |-> 0,
    dietaryRestrictionFilter |-> "", aiFilter |-> "", cuisineFilter |-> "",
    tempDietaryRestrictionFilter |-> "", tempAiFilter |-> "", tempCuisineFilter |-> "",
    filtersLoaded |-> FALSE, isFilterModalVisible |-> FALSE,
    isFilterModalLoading |-> FALSE,
    favoriteLoading |-> [a \in ToggleArgs |-> FALSE],
    currentPage |-> 0, hasMoreMeals |-> TRUE, loadingMore |-> FALSE ]

NoOp == [op |-> "mount", arg |-> Null, outcome |-> "none"]
Op(name, arg, outcome) == [op |-> name, arg |-> arg, outcome |-> outcome]

\* ------------------------------------------------- MealPlanCalendar: data
Dates == { "d1", "d2" }

\* the rows of meal_plan and macro_meals of the owner for a date at the
\* start, as the list fetchMealsForDate builds from them (calendar.tsx 171-236)
PlanOf(date) == IF date = "d1" THEN << NumId(7), Macro42 >> ELSE <<>>

\* calendar.tsx 70, 74, 80: what getCurrentUserId shows when it gives null
CalAuthErrorMsg == <<"Authentication", "error.", "Please", "log", "in", "again.">>
CalNotLoggedInMsg ==
  <<"You", "are", "not", "logged", "in.", "Please", "log", "in", "to", "view", "your", "meals.">>
CalAuthUnexpectedMsg == <<"An", "unexpected", "error", "occurred.", "Please", "try", "again.">>
CalAuthMessages == { CalAuthErrorMsg, CalNotLoggedInMsg, CalAuthUnexpectedMsg }
\* calendar.tsx 160, 252 (the date is part of the text)
CalLoadFailedMsg(date) ==
  <<"Failed", "to", "load", "meals", "for", date, "Please", "try", "refreshing.">>
CalUnexpectedMsg(date) ==
  <<"An", "unexpected", "error", "occurred", "loading", "meals", "for", date>>
\* messages the meal_plan query can fail with
LowerNetworkMsg == <<"network", "request", "failed">>
PlanErrorMessages == { NetworkMsg, LowerNetworkMsg }

\* calendar.tsx 47-54; an entry of loadingDates that was never set is falsy
InitialCalendar ==
  [ meals |-> [d \in Dates |-> <<>>],
    loadingDates |-> [d \in Dates |-> FALSE],
    isRefreshing |-> FALSE,
    isInitialLoading |-> TRUE,
    error |-> Null ]

BothIdle ==
  /\ myMeals = InitialMyMeals
  /\ fetches = EmptyBag
  /\ retryTimers = EmptyBag
  /\ backfillTimers = EmptyBag
  /\ toggles = EmptyBag
  /\ applying = EmptyBag
  /\ calendar = InitialCalendar
  /\ dateFetches = EmptyBag
  /\ remotePlan = [d \in Dates |-> PlanOf(d)]
  /\ mutations = EmptyBag
  /\ remoteFavorite = {}
  /\ signedIn = TRUE
  /\ events = 0
  /\ lastOp = NoOp

InitMyMeals ==
  /\ mounted = "MyMeals"
  /\ BothIdle
  /\ weeks = EmptyBag
  /\ planCache = [d \in Dates |-> <<>>]
  /\ remoteCount \in RemoteCounts
  /\ cachedMeals \in { <<>>, RemoteRows(remoteCount, {}, "", "", "") }
  /\ storage \in StorageProfiles
  /\ online \in BOOLEAN

InitCalendar ==
  /\ mounted = "MealPlanCalendar"
  /\ BothIdle
  /\ weeks = EmptyBag
  /\ planCache \in { [d \in Dates |-> <<>>], [d \in Dates |-> PlanOf(d)] }
  /\ remoteCount = 0
  /\ cachedMeals = <<>>
  /\ storage = EmptyStorage
  /\ online \in BOOLEAN

\* ------------------------------------------------- the frame of an action
\* An action of MyMeals ends with the commit of the state n its setters
\* produced: the effects run, the calls and timers they start are added.
Committed(r, newFetches, newRetryTimers, newBackfillTimers) ==
  /\ BagCardinality(newFetches) + BagCardinality(r.reqs)
       + BagCardinality(newRetryTimers)
       + BagCardinality(newBackfillTimers) + BagCardinality(r.timers) <= MaxPending
  /\ myMeals' = r.s
  /\ fetches' = newFetches (+) r.reqs
  /\ retryTimers' = newRetryTimers
  /\ backfillTimers' = newBackfillTimers (+) r.timers

Commit(n, touched, newFetches, newRetryTimers, newBackfillTimers) ==
  Committed(RunEffects(myMeals, n, touched), newFetches, newRetryTimers,
            newBackfillTimers)

One(x) == SetToBag({x})

\* meals.tsx 697: the full-screen loading view is shown
LoadingScreen(s) == s.loading \/ ~s.filtersLoaded \/ ~s.filteredMealsReady

\* the list, the search bar and the filter button are on screen
ListScreen(s) == ~LoadingScreen(s) /\ ~s.isFilterModalVisible

UserEvent == events < MaxEvents /\ events' = events + 1

\* ------------------------------------------------------------ the startup
\* a restoration that waits for the storage reads whatever time they take
GotWaiting(timeout) == storage

\* meals.tsx 369-372: the entries read, or five empty texts when the 200ms
\* timer wins the race
Got(timeout) ==
  IF timeout THEN [k \in DOMAIN storage |-> Blank(storage[k].value)] ELSE storage

\* an entry as the text getItem gave
Text(item, empty) == IF item.blank THEN empty ELSE item.value

\* meals.tsx 377-396: the restored values are applied
Restored(s, got) ==
  [ s EXCEPT
      !.filters = IF ~got.filters.blank THEN Parse(got.filters.value) ELSE @,
      !.tempFilters = IF ~got.filters.blank THEN Parse(got.filters.value) ELSE @,
      !.sharedFilterObjects = IF ~got.filters.blank THEN TRUE ELSE @,
      !.filtersInUse = IF ~got.filters.blank THEN Parse(got.filters.value) ELSE @,
      !.searchQuery = IF ~got.searchQuery.blank THEN got.searchQuery.value ELSE @,
      !.dietaryRestrictionFilter =
          IF got.dietaryRestrictionFilter.present
            THEN Text(got.dietaryRestrictionFilter, "") ELSE @,
      !.aiFilter = IF got.aiFilter.present THEN Text(got.aiFilter, "") ELSE @,
      !.cuisineFilter = IF got.cuisineFilter.present THEN Text(got.cuisineFilter, "") ELSE @,
      !.error = Null,
      !.filtersLoaded = TRUE,
      !.filteredMealsReady = FALSE ]

\* meals.tsx 348-400 (called by the timer of 402-409): restoreFiltersAndFetchMeals.
\* timeout: did the 200ms timer win the race.
RestoreFilters(timeout) ==
  /\ mounted = "MyMeals"
  /\ ~myMeals.filtersLoaded
  /\ Commit(IF signedIn THEN Restored(myMeals, Got(timeout))
            ELSE [myMeals EXCEPT !.error = AuthRequiredMsg, !.filtersLoaded = TRUE],
            IF signedIn /\ ~Got(timeout).filters.blank THEN {"filters"} ELSE {},
            fetches, retryTimers, backfillTimers)
  /\ lastOp' = Op("restoreFilters", IF signedIn /\ timeout THEN <<"timeout">> ELSE Null,
                  IF signedIn THEN "ok" ELSE "AuthRequired")
  /\ UNCHANGED << Environment, toggles, applying, remoteFavorite, events >>

\* ------------------------------------------------------ fetchMyMeals steps
\* meals.tsx 439-442 with getCurrentUserId (90-102): the call r resumes
\* after the user is known
FetchAuth(r) ==
  /\ BagIn(r, fetches) /\ r.pc = "auth"
  /\ Commit(IF signedIn THEN myMeals ELSE FetchFailed(myMeals, AuthRequiredMsg),
            {},
            IF signedIn
              THEN (fetches (-) One(r))
                     (+) One([r EXCEPT !.pc = IF UseCache(r.loadMore, r.c)
                                                THEN "cache" ELSE "remote"])
            ELSE fetches (-) One(r),
            IF signedIn THEN retryTimers
            ELSE retryTimers (+) RetryTimerFor(r, AuthRequiredMsg),
            backfillTimers)
  /\ lastOp' = Op("fetchAuth", Null, IF signedIn THEN "ok" ELSE "AuthRequired")
  /\ UNCHANGED << Environment, toggles, applying, remoteFavorite, events >>

\* meals.tsx 461: the cache gave nothing to show
CacheMissed(throws) == throws \/ Len(cachedMeals) = 0

\* meals.tsx 450-461: the cache read of the call r settles
FetchCache(r, throws) ==
  /\ BagIn(r, fetches) /\ r.pc = "cache"
  /\ Commit(IF CacheMissed(throws) THEN myMeals
            ELSE FetchSucceeded(myMeals, r, cachedMeals),
            IF CacheMissed(throws) THEN {} ELSE {"meals"},
            IF CacheMissed(throws)
              THEN (fetches (-) One(r)) (+) One([r EXCEPT !.pc = "remote"])
            ELSE Overtaking(r, fetches (-) One(r)),
            retryTimers, backfillTimers)
  /\ lastOp' = Op("fetchCache", IF CacheMissed(throws) THEN Null ELSE Late(r),
                  IF CacheMissed(throws) THEN "miss" ELSE "hit")
  /\ UNCHANGED << Environment, toggles, applying, remoteFavorite, events >>

\* meals.tsx 463-484: the rows the query of the call r gives
QueryOf(r) ==
  RemotePage(RemoteRows(remoteCount, remoteFavorite, r.c.dietaryRestrictionFilter,
                        r.c.aiFilter, r.c.cuisineFilter),
             PageToLoad(r.loadMore, r.c))

\* meals.tsx 463-486: the remote query of the call r settles
FetchRemote(r, msg) ==
  /\ BagIn(r, fetches) /\ r.pc = "remote"
  /\ Commit(IF online THEN FetchSucceeded(myMeals, r, QueryOf(r))
            ELSE FetchFailed(myMeals, OrElse(msg, FetchFailedMsg)),
            IF online THEN {"meals"} ELSE {},
            IF online THEN Overtaking(r, fetches (-) One(r)) ELSE fetches (-) One(r),
            IF online THEN retryTimers
            ELSE retryTimers (+) RetryTimerFor(r, OrElse(msg, FetchFailedMsg)),
            backfillTimers)
  /\ lastOp' = Op("fetchRemote", IF online THEN Late(r) ELSE Null,
                  IF online THEN "ok" ELSE "error")
  /\ UNCHANGED << Environment, toggles, applying, remoteFavorite, events >>

\* a call of fetchMyMeals is made: its setters and its request are committed
Called(call, newRetryTimers, newBackfillTimers) ==
  Commit(call.s, {}, fetches (+) call.reqs, newRetryTimers, newBackfillTimers)

\* meals.tsx 508-511: a retry timer fires
RetryTimerFires(t) ==
  /\ BagIn(t, retryTimers)
  /\ t.attempt <= MaxAttempts
  /\ Called(CallFetchMyMeals([myMeals EXCEPT !.retryCount = @ + 1], t.c,
                             t.isRefresh, t.loadMore, t.attempt,
                             CategoricalOf(myMeals)),
            retryTimers (-) One(t), backfillTimers)
  /\ lastOp' = Op("retryTimer", Null, "fired")
  /\ UNCHANGED << Environment, toggles, applying, remoteFavorite, events >>

\* meals.tsx 575, 525-529: a backfill timer fires and calls the
\* loadMoreMeals of the render that set it
BackfillTimerFires(t) ==
  /\ BagIn(t, backfillTimers)
  /\ Called(CallFetchMyMeals(myMeals, t.fetch, FALSE, TRUE, 0, CategoricalOf(myMeals)),
            retryTimers, backfillTimers (-) One(t))
  /\ lastOp' = Op("backfillTimer", Null, "fired")
  /\ UNCHANGED << Environment, toggles, applying, remoteFavorite, events >>

\* ---------------------------------------------------------- user gestures
\* meals.tsx 520-523: handleRefresh, from the pull-to-refresh of the list
\* (948) or from a retry button beside a shown error (723, 753)
HandleRefresh ==
  /\ mounted = "MyMeals"
  /\ ~myMeals.isFilterModalVisible
  /\ ~LoadingScreen(myMeals) \/ myMeals.error # Null
  /\ UserEvent
  /\ Called(CallFetchMyMeals([myMeals EXCEPT !.retryCount = 0], FetchClosure(myMeals),
                             TRUE, FALSE, 0, CategoricalOf(myMeals)),
            retryTimers, backfillTimers)
  /\ lastOp' = Op("handleRefresh", Null, "called")
  /\ UNCHANGED << Environment, toggles, applying, remoteFavorite >>

\* meals.tsx 525-529: loadMoreMeals of the render on screen, called by the
\* list when its end is reached (953)
LoadMoreMeals ==
  /\ mounted = "MyMeals"
  /\ ListScreen(myMeals)
  /\ UserEvent
  /\ Called(IF LoadMoreGuard(LoadMoreClosure(myMeals))
              THEN CallFetchMyMeals(myMeals, FetchClosure(myMeals), FALSE, TRUE,
                                    0, CategoricalOf(myMeals))
            ELSE [s |-> myMeals, reqs |-> EmptyBag],
            retryTimers, backfillTimers)
  /\ lastOp' = Op("loadMoreMeals", Null,
                  IF LoadMoreGuard(LoadMoreClosure(myMeals)) THEN "called" ELSE "dropped")
  /\ UNCHANGED << Environment, toggles, applying, remoteFavorite >>

SearchTexts == { <<>>, <<"a">>, <<"a", "b">> }

\* meals.tsx 583-594 with getCurrentUserId (90-102): handleSearchChange sets
\* the query and saves it for the user, if there is one; rejected: setItem
\* fails (591-593)
HandleSearchChange(text, rejected) ==
  /\ mounted = "MyMeals"
  /\ ListScreen(myMeals)
  /\ text # myMeals.searchQuery
  /\ UserEvent
  /\ Commit([myMeals EXCEPT !.searchQuery = text,
                            !.error = IF signedIn THEN @ ELSE AuthRequiredMsg],
            {}, fetches, retryTimers, backfillTimers)
  /\ storage' = IF signedIn /\ ~rejected
                  THEN [storage EXCEPT !.searchQuery =
                          IF text = <<>> THEN Blank(<<>>) ELSE Item(text)]
                ELSE storage
  /\ lastOp' = Op("handleSearchChange", text,
                  CASE ~signedIn -> "AuthRequired"
                    [] signedIn /\ rejected -> "unsaved"
                    [] signedIn /\ ~rejected -> "saved")
  /\ UNCHANGED << mounted, calendar, dateFetches, weeks, planCache, remotePlan, mutations, remoteCount, cachedMeals,
                  signedIn, online, toggles, applying, remoteFavorite >>

\* ------------------------------------------------------- the filter modal
\* meals.tsx 144-156: openFilterModal copies the categorical filters in use
OpenFilterModal ==
  /\ mounted = "MyMeals"
  /\ ListScreen(myMeals)
  /\ ~myMeals.isFilterModalLoading
  /\ UserEvent
  /\ Commit([myMeals EXCEPT !.tempAiFilter = myMeals.aiFilter,
                            !.tempDietaryRestrictionFilter = myMeals.dietaryRestrictionFilter,
                            !.tempCuisineFilter = myMeals.cuisineFilter,
                            !.isFilterModalVisible = TRUE],
            {}, fetches, retryTimers, backfillTimers)
  /\ lastOp' = Op("openFilterModal", Null, "opened")
  /\ UNCHANGED << Environment, toggles, applying, remoteFavorite >>

\* meals.tsx 174-192: closeFilterModal, the modal is left without applying
CloseFilterModal ==
  /\ mounted = "MyMeals"
  /\ myMeals.isFilterModalVisible
  /\ ~myMeals.isFilterModalLoading
  /\ Commit([myMeals EXCEPT !.isFilterModalVisible = FALSE,
                            !.isFilterModalLoading = FALSE],
            {}, fetches, retryTimers, backfillTimers)
  /\ lastOp' = Op("closeFilterModal", Null, "closed")
  /\ UNCHANGED << Environment, toggles, applying, remoteFavorite, events >>

DietaryChoices == { "", "vegan" }
AiChoices == { "", "ai", "not_ai" }
CuisineChoices == { "", "italian" }

\* the chips and pickers of the modal: setTempDietaryRestrictionFilter,
\* setTempAiFilter (meals.tsx 1152), setTempCuisineFilter
SetTempFilters(dietary, ai, cuisine) ==
  /\ mounted = "MyMeals"
  /\ myMeals.isFilterModalVisible
  /\ ~myMeals.isFilterModalLoading
  /\ << dietary, ai, cuisine >> # << myMeals.tempDietaryRestrictionFilter,
                                     myMeals.tempAiFilter, myMeals.tempCuisineFilter >>
  /\ Commit([myMeals EXCEPT !.tempDietaryRestrictionFilter = dietary,
                            !.tempAiFilter = ai,
                            !.tempCuisineFilter = cuisine],
            {}, fetches, retryTimers, backfillTimers)
  /\ lastOp' = Op("setTempFilters", Null, "set")
  /\ UNCHANGED << Environment, toggles, applying, remoteFavorite, events >>

\* the bound fields the model types in, and what it types
TypedFilter == 1
TypedTexts == { <<"x">>, <<"5">> }

\* meals.tsx 1199-1203 and 1214-1218: a text is typed in a bound field of the
\* modal.  The array is copied, the filter object is not: the text is
\* written into the object tempFilters holds, which is the object filters
\* holds when the two share their objects, and only setTempFilters is called
TypeBound(index, side, text) ==
  /\ mounted = "MyMeals"
  /\ myMeals.isFilterModalVisible
  /\ ~myMeals.isFilterModalLoading
  /\ myMeals.tempFilters[index][side] # text
  /\ Commit([myMeals EXCEPT
               !.tempFilters[index][side] = text,
               !.filters[index][side] = IF myMeals.sharedFilterObjects THEN text ELSE @],
            {}, fetches, retryTimers, backfillTimers)
  /\ lastOp' = Op("typeBound", Null, side)
  /\ UNCHANGED << Environment, toggles, applying, remoteFavorite, events >>

\* meals.tsx 652-656
IsValid(tempFilters) ==
  \A i \in DOMAIN tempFilters :
     /\ tempFilters[i].greaterThan = <<>> \/ ~ParseFloat(tempFilters[i].greaterThan).nan
     /\ tempFilters[i].lessThan = <<>> \/ ~ParseFloat(tempFilters[i].lessThan).nan

\* meals.tsx 647-664: applyFilters up to its await; the call keeps the
\* pending values of the render it was made in
ApplyFilters ==
  /\ mounted = "MyMeals"
  /\ myMeals.isFilterModalVisible
  /\ ~myMeals.isFilterModalLoading
  /\ Commit([myMeals EXCEPT !.error = Null,
                            !.isFilterModalLoading = IsValid(myMeals.tempFilters)],
            {}, fetches, retryTimers, backfillTimers)
  /\ applying' =
       IF IsValid(myMeals.tempFilters)
         THEN applying (+) One([ kind |-> "apply",
                  tempFilters |-> myMeals.tempFilters,
                  tempDietaryRestrictionFilter |-> myMeals.tempDietaryRestrictionFilter,
                  tempAiFilter |-> myMeals.tempAiFilter,
                  tempCuisineFilter |-> myMeals.tempCuisineFilter ])
       ELSE applying
  /\ lastOp' = Op("applyFilters", Null,
                  IF IsValid(myMeals.tempFilters) THEN "called" ELSE "ValidationError")
  /\ UNCHANGED << Environment, toggles, remoteFavorite, events >>

\* the entries applyFilters writes (meals.tsx 679-684)
StorageAfterApply(a) ==
  [ storage EXCEPT
      !.filters = Item(Stringify(a.tempFilters)),
      !.aiFilter = IF a.tempAiFilter = "" THEN Blank("") ELSE Item(a.tempAiFilter),
      !.dietaryRestrictionFilter =
          IF a.tempDietaryRestrictionFilter = "" THEN Blank("")
          ELSE Item(a.tempDietaryRestrictionFilter),
      !.cuisineFilter =
          IF a.tempCuisineFilter = "" THEN Blank("") ELSE Item(a.tempCuisineFilter) ]

\* meals.tsx 664-676: the setters of applyFilters after getCurrentUserId
Applied(s, a) ==
  IF signedIn
    THEN [s EXCEPT !.filters = a.tempFilters,
                   !.sharedFilterObjects = TRUE,
                   !.filtersInUse = a.tempFilters,
                   !.dietaryRestrictionFilter = a.tempDietaryRestrictionFilter,
                   !.aiFilter = a.tempAiFilter,
                   !.cuisineFilter = a.tempCuisineFilter,
                   !.isFilterModalVisible = FALSE,
                   !.isFilterModalLoading = FALSE]
  ELSE [s EXCEPT !.error = AuthRequiredMsg, !.isFilterModalLoading = FALSE]

\* meals.tsx 664-694: applyFilters resumes after getCurrentUserId; rejected:
\* the writes to storage fail (684)
ApplyFiltersResumes(a, rejected) ==
  /\ BagIn(a, applying) /\ a.kind = "apply"
  /\ Commit(Applied(myMeals, a), IF signedIn THEN {"filters"} ELSE {},
            fetches, retryTimers, backfillTimers)
  /\ storage' = IF signedIn /\ ~rejected THEN StorageAfterApply(a) ELSE storage
  /\ lastOp' = Op("applyFilters", IF signedIn /\ rejected THEN <<"unsaved">> ELSE Null,
                  IF signedIn THEN "applied" ELSE "AuthRequired")
  /\ applying' = applying (-) One(a)
  /\ UNCHANGED << mounted, calendar, dateFetches, weeks, planCache, remotePlan, mutations, remoteCount,
                  cachedMeals, signedIn, online, toggles, remoteFavorite, events >>

\* meals.tsx 598-625: clearFilters up to its await
ClearFilters ==
  /\ mounted = "MyMeals"
  /\ myMeals.isFilterModalVisible
  /\ ~myMeals.isFilterModalLoading
  /\ Commit([myMeals EXCEPT
               !.error = Null,
               !.filters = DefaultFilters, !.tempFilters = DefaultFilters,
               !.sharedFilterObjects = TRUE, !.filtersInUse = DefaultFilters,
               !.aiFilter = "", !.tempAiFilter = "",
               !.dietaryRestrictionFilter = "", !.tempDietaryRestrictionFilter = "",
               !.cuisineFilter = "", !.tempCuisineFilter = "",
               !.searchQuery = <<>>,
               !.isFilterModalVisible = FALSE,
               !.isFilterModalLoading = TRUE],
            {"filters"}, fetches, retryTimers, backfillTimers)
  /\ applying' = applying (+) One([kind |-> "clear"])
  /\ lastOp' = Op("clearFilters", Null, "called")
  /\ UNCHANGED << Environment, toggles, remoteFavorite, events >>

\* meals.tsx 625-644 with getCurrentUserId (90-102): clearFilters resumes;
\* rejected: the removals from storage fail (634)
ClearFiltersResumes(a, rejected) ==
  /\ BagIn(a, applying) /\ a.kind = "clear"
  /\ Commit([myMeals EXCEPT !.isFilterModalLoading = FALSE,
                            !.error = IF signedIn THEN @ ELSE AuthRequiredMsg],
            {}, fetches, retryTimers, backfillTimers)
  /\ storage' = IF signedIn /\ ~rejected THEN EmptyStorage ELSE storage
  /\ applying' = applying (-) One(a)
  /\ lastOp' = Op("clearFilters", IF signedIn /\ rejected THEN <<"unsaved">> ELSE Null,
                  IF signedIn THEN "cleared" ELSE "AuthRequired")
  /\ UNCHANGED << mounted, calendar, dateFetches, weeks, planCache, remotePlan, mutations, remoteCount,
                  cachedMeals, signedIn, online, toggles, remoteFavorite, events >>

\* --------------------------------------------------------- toggleFavorite
\* meals.tsx 308: meals.find(meal => meal.id === mealId); the places where
\* find can stop, and the one where it stops
Find(ms, mealId) == { i \in DOMAIN ms : SameId(ms[i], mealId) }
Min1(found) == CHOOSE i \in found : \A j \in found : i <= j

\* meals.tsx 316-320 and 330-334: meals.map with the flag of mealId set
WithFavorite(ms, mealId, flag) ==
  [i \in DOMAIN ms |-> IF SameId(ms[i], mealId) THEN [ms[i] EXCEPT !.favorite = flag]
                       ELSE ms[i]]

\* a guard that lets every toggle through
FavoriteGuardOpen(s, mealId) == FALSE

\* meals.tsx 296: is a toggle of mealId under way in render s
FavoriteGuard(s, mealId) == s.favoriteLoading[mealId]

\* a failure path without the finally
ToggleFailedHoldingFlag(s, mealId, msg) == [s EXCEPT !.error = msg]

\* meals.tsx 338-345: the catch and the finally of toggleFavorite
ToggleFailed(s, mealId, msg) ==
  [s EXCEPT !.error = msg, !.favoriteLoading[mealId] = FALSE]

\* meals.tsx 303-321: toggleFavorite past its two early returns, up to its
\* await or to its throw; s is the render on screen
ToggleStarted(s, mealId, found) ==
  IF found = {}
    THEN [ outcome |-> "NotFound", touched |-> {}, calls |-> EmptyBag,
           s |-> ToggleFailed([s EXCEPT !.favoriteLoading[mealId] = TRUE],
                              mealId, MealNotFoundMsg) ]
  ELSE [ outcome |-> "called", touched |-> {"meals"},
         calls |-> One([ mealId |-> mealId, meals |-> s.meals,
                         favorite |-> s.meals[Min1(found)].favorite,
                         newFavoriteStatus |-> ~s.meals[Min1(found)].favorite ]),
         s |-> [s EXCEPT !.favoriteLoading[mealId] = TRUE, !.error = Null,
                         !.meals = WithFavorite(s.meals, mealId,
                                                ~s.meals[Min1(found)].favorite)] ]

\* meals.tsx 295-321: toggleFavorite of render s, up to its await
ToggleCalled(s, mealId) ==
  IF FavoriteGuard(s, mealId)
    THEN [ outcome |-> "dropped", touched |-> {}, calls |-> EmptyBag, s |-> s ]
  ELSE IF IsMacroId(mealId)
    THEN [ outcome |-> "skipped", touched |-> {}, calls |-> EmptyBag, s |-> s ]
  ELSE ToggleStarted(s, mealId, Find(s.meals, mealId))

ToggleDone(mealId, t) ==
  /\ Commit(t.s, t.touched, fetches, retryTimers, backfillTimers)
  /\ toggles' = toggles (+) t.calls
  /\ lastOp' = Op("toggleFavorite", mealId, t.outcome)

\* meals.tsx 295-346: a favorite button is pressed
ToggleFavorite(mealId) ==
  /\ mounted = "MyMeals"
  /\ ListScreen(myMeals)
  /\ events < MaxToggles
  /\ events' = events + 1
  /\ ToggleDone(mealId, ToggleCalled(myMeals, mealId))
  /\ UNCHANGED << Environment, applying, remoteFavorite >>

\* how a call to the remote source can end: done, an error result, or a
\* rejected call
UpdateOutcomes == IF online THEN { "ok" } ELSE { "error", "throws" }

\* meals.tsx 323-345: what the settled update of the call c leaves, in
\* the state s on screen
ToggleSettled(s, c, outcome, msg) ==
  CASE outcome = "ok" ->
         [ touched |-> {}, s |-> [s EXCEPT !.favoriteLoading[c.mealId] = FALSE] ]
    [] outcome = "error" ->
         [ touched |-> {"meals"},
           s |-> ToggleFailed([s EXCEPT !.meals = WithFavorite(c.meals, c.mealId, c.favorite)],
                              c.mealId, OrElse(msg, FavoriteFailedMsg)) ]
    [] outcome = "throws" ->
         [ touched |-> {},
           s |-> ToggleFailed(s, c.mealId, OrElse(msg, FavoriteRetryMsg)) ]

\* .update({ favorite }).eq("id", mealId) on the remote rows (meals.tsx 323-326)
RemoteFavoriteAfter(c, outcome) ==
  IF outcome # "ok" THEN remoteFavorite
  ELSE IF c.newFavoriteStatus THEN remoteFavorite \cup { c.mealId.n }
  ELSE remoteFavorite \ { c.mealId.n }

ToggleSettlesDone(t) ==
  Commit(t.s, t.touched, fetches, retryTimers, backfillTimers)

\* meals.tsx 323-345: the remote update of the call c settles
ToggleFavoriteSettles(c, outcome, msg) ==
  /\ BagIn(c, toggles)
  /\ outcome \in UpdateOutcomes
  /\ ToggleSettlesDone(ToggleSettled(myMeals, c, outcome, msg))
  /\ remoteFavorite' = RemoteFavoriteAfter(c, outcome)
  /\ toggles' = toggles (-) One(c)
  /\ lastOp' = Op("toggleFavoriteSettles", c.mealId, outcome)
  /\ UNCHANGED << Environment, applying, events >>

\* ------------------------------------------------------- the environment
\* the session ends, or a user signs in again
SessionChanges ==
  /\ UserEvent
  /\ signedIn' = ~signedIn
  /\ lastOp' = Op("session", Null, IF signedIn THEN "signedOut" ELSE "signedIn")
  /\ UNCHANGED << mounted, myMeals, fetches, retryTimers, backfillTimers, toggles,
                  applying, calendar, dateFetches, weeks, planCache, remotePlan, mutations,
                  remoteCount, remoteFavorite, cachedMeals, storage, online >>

\* the session ends by itself
SessionExpires ==
  /\ signedIn
  /\ signedIn' = FALSE
  /\ lastOp' = Op("session", Null, "expired")
  /\ UNCHANGED << mounted, myMeals, fetches, retryTimers, backfillTimers, toggles,
                  applying, calendar, dateFetches, weeks, planCache, remotePlan, mutations,
                  remoteCount, remoteFavorite, cachedMeals, storage, online, events >>

\* the network goes down, or comes back
NetworkChanges ==
  /\ UserEvent
  /\ online' = ~online
  /\ lastOp' = Op("network", Null, IF online THEN "down" ELSE "up")
  /\ UNCHANGED << mounted, myMeals, fetches, retryTimers, backfillTimers, toggles,
                  applying, calendar, dateFetches, weeks, planCache, remotePlan, mutations,
                  remoteCount, remoteFavorite, cachedMeals, storage, signedIn >>

\* ------------------------------------------- MealPlanCalendar: the fetch
\* what the actions of MealPlanCalendar leave alone
MyMealsState == << mounted, myMeals, fetches, retryTimers, backfillTimers, toggles,
                   applying, planCache, remotePlan, mutations, remoteCount,
                   remoteFavorite, cachedMeals,
                   storage, signedIn, online, events >>

\* calendar.tsx 318-321, 574-577, 743-746: the caller stores the list it is
\* given
Returned(s, date, list) == [s EXCEPT !.meals[date] = list]

\* calendar.tsx 272: const newMeals = {}
NoMeals == [d \in {} |-> <<>>]

\* calendar.tsx 287, 343: newMeals[currentDateString] = mealsForDate
Put(newMeals, date, list) ==
  [d \in DOMAIN newMeals \cup {date} |-> IF d = date THEN list ELSE newMeals[d]]

\* calendar.tsx 301, 349: setMeals((prevMeals) => ({ ...prevMeals, ...newMeals }))
MergedMeals(prevMeals, newMeals) ==
  [d \in Dates |-> IF d \in DOMAIN newMeals THEN newMeals[d] ELSE prevMeals[d]]

\* calendar.tsx 354-357: the finally of fetchMealsForWeek
WeekOver(s) == [s EXCEPT !.isRefreshing = FALSE, !.isInitialLoading = FALSE]

\* calendar.tsx 353
CalWeekFailedMsg == <<"Failed", "to", "load", "meal", "plan.", "Please", "try", "again.">>

JoinedUnlessFailed(s, w) ==
  IF w.failed # {}
    THEN WeekOver([s EXCEPT !.error = CalWeekFailedMsg])
  ELSE WeekOver([s EXCEPT !.meals = MergedMeals(@, w.newMeals), !.error = Null])

\* calendar.tsx 348-357: the calls of the fresh path are all over; w is the
\* call of fetchMealsForWeek with the lists it gathered
Joined(s, w) ==
  WeekOver([s EXCEPT !.meals = MergedMeals(@, w.newMeals), !.error = Null])

\* calendar.tsx 325-329 and 354-357: the calls for the missing dates are
\* all over
MissingJoined(s) == WeekOver([s EXCEPT !.error = Null])

\* the call of fetchMealsForWeek that made the call r
WeekOf(r) == CHOOSE w \in BagToSet(weeks) : w.id = r.caller

\* The call r is over and gives list; s is the state its own setters leave.
\* A caller that awaits the one call stores the list (caller 0: 574-577,
\* 743-746). A call made by fetchMealsForWeek resolves the promise the week
\* call waits for: on the path of the missing dates its then-callback stores
\* the list (317-322), on the fresh path it puts the list in newMeals (343);
\* when it was the last call awaited, Promise.all resolves and the week call
\* runs to its end in the same turn (325-329 or 348-357).
Settles(r, s, list, gaveUp) ==
  IF r.caller = 0
    THEN /\ calendar' = Returned(s, r.date, list)
         /\ weeks' = weeks
  ELSE LET w == WeekOf(r)
           got == [w EXCEPT !.newMeals = IF w.pc = "fresh" THEN Put(@, r.date, list) ELSE @,
                            !.pending = @ \ {r.date},
                            !.failed = IF gaveUp THEN @ \cup {r.date} ELSE @]
           stored == IF w.pc = "missing" THEN Returned(s, r.date, list) ELSE s
       IN IF got.pending = {}
            THEN /\ calendar' = IF w.pc = "fresh" THEN Joined(stored, got)
                                ELSE MissingJoined(stored)
                 /\ weeks' = weeks (-) One(w)
          ELSE /\ calendar' = stored
               /\ weeks' = (weeks (-) One(w)) (+) One(got)

\* calendar.tsx 85-88: a call of fetchMealsForDate(date) up to its first
\* await; caller is the id of the fetchMealsForWeek call that made it, 0
\* for another caller
DateFetch(date, caller) ==
  [date |-> date, retryCount |-> 0, pc |-> "auth", caller |-> caller, delay |-> 0]

\* calendar.tsx 85-88: fetchMealsForDate(date) called by itself: after a
\* scanned meal is deleted (573) or saved (740), for a day of the next week
\* (523)
FetchMealsForDate(date) ==
  /\ mounted = "MealPlanCalendar"
  /\ BagCardinality(dateFetches) < MaxPending
  /\ calendar' = [calendar EXCEPT !.loadingDates[date] = TRUE]
  /\ dateFetches' = dateFetches (+) One(DateFetch(date, 0))
  /\ lastOp' = Op("fetchMealsForDate", date, "called")
  /\ UNCHANGED << MyMealsState, weeks >>

\* calendar.tsx 65-83: the message getCurrentUserId sets when it gives null
CalAuthMessage(how) ==
  CASE how = "error" -> CalAuthErrorMsg
    [] how = "nouser" -> CalNotLoggedInMsg
    [] how = "throws" -> CalAuthUnexpectedMsg

\* calendar.tsx 90-94 with getCurrentUserId (65-83)
FetchDateAuth(r, how) ==
  /\ BagIn(r, dateFetches) /\ r.pc = "auth"
  /\ IF signedIn
       THEN /\ UNCHANGED << calendar, weeks >>
            /\ dateFetches' = (dateFetches (-) One(r)) (+) One([r EXCEPT !.pc = "cache"])
            /\ lastOp' = Op("fetchDateAuth", r.date, "ok")
     ELSE /\ Settles(r, [calendar EXCEPT !.error = CalAuthMessage(how),
                                         !.loadingDates[r.date] = FALSE],
                     <<>>, TRUE)
          /\ dateFetches' = dateFetches (-) One(r)
          /\ lastOp' = Op("fetchDateAuth", r.date, "AuthRequired")
  /\ UNCHANGED MyMealsState

\* cachedDataService.getMealsForDate(userId, date, false) when it is not
\* rejected: the list the cache holds for the date, empty when it holds none
GetMealsForDate(date) == planCache[date]

\* calendar.tsx 96-107
FetchDateCache(r, throws) ==
  /\ BagIn(r, dateFetches) /\ r.pc = "cache"
  /\ IF ~throws /\ Len(GetMealsForDate(r.date)) > 0
       THEN /\ Settles(r, [calendar EXCEPT !.loadingDates[r.date] = FALSE,
                                           !.error = Null],
                       GetMealsForDate(r.date), FALSE)
            /\ dateFetches' = dateFetches (-) One(r)
            /\ lastOp' = Op("fetchDateCache", r.date, "hit")
     ELSE /\ UNCHANGED << calendar, weeks >>
          /\ dateFetches' = (dateFetches (-) One(r)) (+) One([r EXCEPT !.pc = "remote"])
          /\ lastOp' = Op("fetchDateCache", r.date, "miss")
  /\ UNCHANGED MyMealsState

\* calendar.tsx 154 and 246: is the failed call made again
CalShouldRetry(r, outcome, msg) ==
  /\ r.retryCount < CAL_MAX_RETRIES
  /\ outcome = "throws" \/ Includes(msg, "network") \/ Includes(msg, "timeout")

\* calendar.tsx 110-163 and 238-254: the two queries settle
FetchDateRemote(r, outcome, msg) ==
  LET gaveUp == IF outcome = "error" THEN CalLoadFailedMsg(r.date)
                ELSE CalUnexpectedMsg(r.date)
  IN /\ BagIn(r, dateFetches) /\ r.pc = "remote"
     /\ outcome \in UpdateOutcomes
     /\ CASE outcome = "ok" ->
               /\ Settles(r, [calendar EXCEPT !.loadingDates[r.date] = FALSE,
                                              !.error = Null],
                          remotePlan[r.date], FALSE)
               /\ dateFetches' = dateFetches (-) One(r)
          [] outcome # "ok" /\ CalShouldRetry(r, outcome, msg) ->
               /\ UNCHANGED << calendar, weeks >>
               /\ dateFetches' = (dateFetches (-) One(r))
                                   (+) One([r EXCEPT !.pc = "wait",
                                                     !.delay = CAL_RETRY_DELAY_MS])
          [] outcome # "ok" /\ ~CalShouldRetry(r, outcome, msg) ->
               /\ Settles(r, [calendar EXCEPT !.error = gaveUp,
                                              !.loadingDates[r.date] = FALSE],
                          <<>>, TRUE)
               /\ dateFetches' = dateFetches (-) One(r)
     /\ lastOp' = Op("fetchDateRemote", r.date, outcome)
     /\ UNCHANGED MyMealsState

\* calendar.tsx 156-157, 248-249 and 88: the wait is over, the call is made
\* again with retryCount + 1
FetchDateRetry(r) ==
  /\ BagIn(r, dateFetches) /\ r.pc = "wait"
  /\ calendar' = [calendar EXCEPT !.loadingDates[r.date] = TRUE]
  /\ dateFetches' = (dateFetches (-) One(r))
                      (+) One([r EXCEPT !.pc = "auth", !.retryCount = @ + 1,
                                        !.delay = 0])
  /\ lastOp' = Op("fetchDateRetry", r.date, "called")
  /\ UNCHANGED << MyMealsState, weeks >>

\* ------------------------------------- MealPlanCalendar: the week load
\* calendar.tsx 258-265: fetchMealsForWeek(startOfCurrentWeek, isRefresh)
\* up to its first await; the days of the week on screen are Dates
WeekCall(id, isRefresh) ==
  [ id |-> id, isRefresh |-> isRefresh, pc |-> "auth",
    newMeals |-> NoMeals, pending |-> {}, failed |-> {} ]

\* calendar.tsx 423-430: the timer the mount effect starts
MountTimer == [WeekCall(1, FALSE) EXCEPT !.pc = "timer"]

\* an id no suspended call of fetchMealsForWeek has
FreeWeekId == CHOOSE k \in 1..MaxWeeks : \A w \in BagToSet(weeks) : w.id # k

\* calendar.tsx 425-426 with 258-266: the timer fires
MountTimerFires(w) ==
  /\ BagIn(w, weeks) /\ w.pc = "timer"
  /\ calendar' = [calendar EXCEPT !.isInitialLoading = TRUE]
  /\ weeks' = (weeks (-) One(w)) (+) One([w EXCEPT !.pc = "auth"])
  /\ lastOp' = Op("fetchMealsForWeek", w.id, "called")
  /\ UNCHANGED << MyMealsState, dateFetches >>

\* calendar.tsx 361-363 with 258-266: the Retry button of the error banner
\* (770-781) or the pull on the list (863, 882-886)
CalendarHandleRefresh ==
  /\ mounted = "MealPlanCalendar"
  /\ calendar.error # Null \/ (~calendar.isInitialLoading /\ ~calendar.isRefreshing)
  /\ BagCardinality(weeks) < MaxWeeks
  /\ UserEvent
  /\ calendar' = [calendar EXCEPT !.isRefreshing = TRUE]
  /\ weeks' = weeks (+) One(WeekCall(FreeWeekId, TRUE))
  /\ lastOp' = Op("fetchMealsForWeek", FreeWeekId, "called")
  /\ UNCHANGED << mounted, myMeals, fetches, retryTimers, backfillTimers, toggles,
                  applying, dateFetches, planCache, remotePlan, mutations, remoteCount,
                  remoteFavorite, cachedMeals, storage, signedIn, online >>

\* calendar.tsx 338-346 (and 314-323): fetchMealsForDate is called for every
\* date of dates, each call running to its first await (85-90), before
\* Promise.all is awaited
FetchesStarted(w, dates, pc) ==
  /\ calendar' = [calendar EXCEPT
                    !.loadingDates = [d \in Dates |-> IF d \in dates THEN TRUE ELSE @[d]]]
  /\ dateFetches' = dateFetches (+) SetToBag({ DateFetch(d, w.id) : d \in dates })
  /\ weeks' = (weeks (-) One(w)) (+) One([w EXCEPT !.pc = pc, !.pending = dates])

\* calendar.tsx 266-275 with getCurrentUserId (65-83), and 335-347 for a
\* refresh
WeekAuth(w) ==
  /\ BagIn(w, weeks) /\ w.pc = "auth"
  /\ CASE ~signedIn ->
            /\ calendar' = WeekOver([calendar EXCEPT !.error = AuthRequiredMsg])
            /\ weeks' = weeks (-) One(w)
            /\ dateFetches' = dateFetches
            /\ lastOp' = Op("fetchMealsForWeek", w.id, "AuthRequired")
       [] signedIn /\ w.isRefresh ->
            /\ FetchesStarted(w, Dates, "fresh")
            /\ lastOp' = Op("fetchMealsForWeek", w.id, "fresh")
       [] signedIn /\ ~w.isRefresh ->
            /\ UNCHANGED << calendar, dateFetches >>
            /\ weeks' = (weeks (-) One(w)) (+) One([w EXCEPT !.pc = "cache"])
            /\ lastOp' = Op("fetchMealsForWeek", w.id, "cache")
  /\ UNCHANGED MyMealsState

\* calendar.tsx 276-347: the reads of the cache are all over; thrown: the
\* dates whose read was rejected
WeekCache(w, thrown) ==
  LET newMeals == [d \in Dates \ thrown |-> GetMealsForDate(d)]
      datesWithData == { d \in DOMAIN newMeals : Len(newMeals[d]) > 0 }
      missingDates == Dates \ datesWithData
      shown == [calendar EXCEPT !.meals = MergedMeals(@, newMeals)]
  IN /\ BagIn(w, weeks) /\ w.pc = "cache"
     /\ CASE datesWithData = {} ->
               /\ FetchesStarted(w, Dates, "fresh")
               /\ lastOp' = Op("fetchMealsForWeek", w.id, "fresh")
          [] datesWithData # {} /\ missingDates = {} ->
               /\ calendar' = WeekOver([shown EXCEPT !.error = Null])
               /\ weeks' = weeks (-) One(w)
               /\ dateFetches' = dateFetches
               /\ lastOp' = Op("fetchMealsForWeek", w.id, "cached")
          [] datesWithData # {} /\ missingDates # {} ->
               /\ calendar' = [shown EXCEPT
                    !.loadingDates = [d \in Dates |-> IF d \in missingDates THEN TRUE
                                                      ELSE @[d]]]
               /\ dateFetches' = dateFetches
                                   (+) SetToBag({ DateFetch(d, w.id) : d \in missingDates })
               /\ weeks' = (weeks (-) One(w))
                             (+) One([w EXCEPT !.pc = "missing", !.pending = missingDates])
               /\ lastOp' = Op("fetchMealsForWeek", w.id, "missing")
     /\ UNCHANGED MyMealsState

\* ---------------------------------------- MealPlanCalendar: the mutations
\* what the mutations of MealPlanCalendar leave alone
CalendarRest == << mounted, myMeals, fetches, retryTimers, backfillTimers, toggles,
                   applying, weeks, remoteCount, remoteFavorite, cachedMeals, storage,
                   signedIn, online >>

\* the id fetchMealsForDate gives the row a scan saves (calendar.tsx 211)
Macro43 == StrId(MacroPrefix \o <<"4", "3">>)

Shows(list, id) == \E i \in DOMAIN list : list[i] = id

Without(list, id) ==
  LET Other(x) == x # id
  IN SelectSeq(list, Other)

\* cachedDataService.invalidateMealPlanCache(userId): every entry of the
\* owner is dropped
InvalidateMealPlanCache(cache) == [d \in Dates |-> <<>>]

\* the call of one of the three, up to its first await
StartMutation(kind, date, pc) ==
  /\ mounted = "MealPlanCalendar"
  /\ UserEvent
  /\ mutations' = mutations (+) One([kind |-> kind, date |-> date, pc |-> pc])
  /\ lastOp' = Op(kind, date, "called")
  /\ UNCHANGED << CalendarRest, calendar, dateFetches, planCache, remotePlan >>

\* calendar.tsx 365-367 (called at 495)
DeleteAllMealsForDate(date) ==
  /\ date \in Dates
  /\ StartMutation("deleteAllMealsForDate", date, "auth")

\* calendar.tsx 538-546 (called at 606 for a scanned meal on screen; its
\* created_at is in the date it is listed under, 144-145)
DeleteMacroMeal(date) ==
  /\ Shows(calendar.meals[date], Macro42)
  /\ IsMacroId(Macro42)
  /\ StartMutation("deleteMacroMeal", date, "auth")

\* calendar.tsx 702-710 (called at 693)
ScanMealImage(date) ==
  /\ date \in Dates
  /\ StartMutation("scanMealImage", date, "analyze")

\* calendar.tsx 573 and 740: the mutation calls fetchMealsForDate(date) and
\* is over when that call is (574-577, 743-746 store the list it gives)
Refetched(m, newCalendar, newPlanCache) ==
  /\ BagCardinality(dateFetches) < MaxPending
  /\ calendar' = [newCalendar EXCEPT !.loadingDates[m.date] = TRUE]
  /\ dateFetches' = dateFetches (+) One(DateFetch(m.date, 0))
  /\ planCache' = newPlanCache
  /\ mutations' = mutations (-) One(m)

\* calendar.tsx 367-371, 546-550, 732-737 with getCurrentUserId (65-83)
MutationAuth(m, how) ==
  LET denied == [calendar EXCEPT !.error = CalAuthMessage(how)]
      next == CASE m.kind = "deleteAllMealsForDate" -> "confirm"
                [] m.kind = "deleteMacroMeal" -> "delete"
                [] m.kind = "scanMealImage" -> "invalidate"
  IN /\ BagIn(m, mutations) /\ m.pc \in { "auth", "userId" }
     /\ CASE signedIn ->
               /\ mutations' = (mutations (-) One(m)) (+) One([m EXCEPT !.pc = next])
               /\ UNCHANGED << calendar, dateFetches, planCache >>
          [] ~signedIn /\ m.kind = "scanMealImage" ->
               Refetched(m, denied, planCache)
          [] ~signedIn /\ m.kind # "scanMealImage" ->
               /\ calendar' = denied
               /\ mutations' = mutations (-) One(m)
               /\ UNCHANGED << dateFetches, planCache >>
     /\ lastOp' = Op("mutationAuth", m.date, IF signedIn THEN "ok" ELSE "denied")
     /\ UNCHANGED << CalendarRest, remotePlan, events >>

\* calendar.tsx 374-386: the dialog is answered
ConfirmDelete(m, pressed) ==
  /\ BagIn(m, mutations) /\ m.pc = "confirm"
  /\ mutations' = IF pressed = "Delete"
                    THEN (mutations (-) One(m)) (+) One([m EXCEPT !.pc = "delete"])
                  ELSE mutations (-) One(m)
  /\ lastOp' = Op("confirmDelete", m.date, pressed)
  /\ UNCHANGED << CalendarRest, calendar, dateFetches, planCache, remotePlan, events >>

\* the rows of a date once the remote source has done what m asks:
\* calendar.tsx 387-391 (meal_plan only), 556-560, 724-725
Mutated(m, rows) ==
  CASE m.kind = "deleteAllMealsForDate" -> SelectSeq(rows, IsMacroId)
    [] m.kind = "deleteMacroMeal" -> Without(rows, Macro42)
    [] m.kind = "scanMealImage" -> Append(Without(rows, Macro43), Macro43)

\* calendar.tsx 387-397, 556-566, 710-718: the remote source answers
MutationRemote(m, outcome) ==
  LET next == IF m.kind = "scanMealImage" THEN "getUser" ELSE "invalidate"
  IN /\ BagIn(m, mutations) /\ m.pc \in { "delete", "analyze" }
     /\ outcome \in UpdateOutcomes
     /\ IF outcome = "ok"
          THEN /\ remotePlan' = [remotePlan EXCEPT ![m.date] = Mutated(m, @)]
               /\ mutations' = (mutations (-) One(m)) (+) One([m EXCEPT !.pc = next])
        ELSE /\ remotePlan' = remotePlan
             /\ mutations' = mutations (-) One(m)
     /\ lastOp' = Op("mutationRemote", m.date, outcome)
     /\ UNCHANGED << CalendarRest, calendar, dateFetches, planCache, events >>

\* calendar.tsx 720-723
ScanGetUser(m) ==
  /\ BagIn(m, mutations) /\ m.pc = "getUser"
  /\ mutations' = IF signedIn
                    THEN (mutations (-) One(m)) (+) One([m EXCEPT !.pc = "userId"])
                  ELSE mutations (-) One(m)
  /\ lastOp' = Op("scanGetUser", m.date, IF signedIn THEN "ok" ELSE "throws")
  /\ UNCHANGED << CalendarRest, calendar, dateFetches, planCache, remotePlan, events >>

\* calendar.tsx 402-408, 569-573, 736-740: the invalidation is over
InvalidateDone(m) ==
  /\ BagIn(m, mutations) /\ m.pc = "invalidate"
  /\ IF m.kind = "deleteAllMealsForDate"
       THEN /\ calendar' = Returned(calendar, m.date, <<>>)
            /\ planCache' = InvalidateMealPlanCache(planCache)
            /\ mutations' = mutations (-) One(m)
            /\ dateFetches' = dateFetches
     ELSE Refetched(m, calendar, InvalidateMealPlanCache(planCache))
  /\ lastOp' = Op("invalidateDone", m.date, m.kind)
  /\ UNCHANGED << CalendarRest, remotePlan, events >>

Mutations ==
  \/ \E date \in Dates : DeleteAllMealsForDate(date)
  \/ \E date \in Dates : DeleteMacroMeal(date)
  \/ \E date \in Dates : ScanMealImage(date)
  \/ \E m \in BagToSet(mutations), how \in { "error", "nouser", "throws" } :
        MutationAuth(m, how)
  \/ \E m \in BagToSet(mutations), pressed \in { "Cancel", "Delete" } :
        ConfirmDelete(m, pressed)
  \/ \E m \in BagToSet(mutations), outcome \in { "ok", "error", "throws" } :
        MutationRemote(m, outcome)
  \/ \E m \in BagToSet(mutations) : ScanGetUser(m)
  \/ \E m \in BagToSet(mutations) : InvalidateDone(m)

\* what runs without a gesture: the startup, the suspended calls, the timers
Fetching ==
  \/ \E timeout \in BOOLEAN : RestoreFilters(timeout)
  \/ \E r \in BagToSet(fetches) : FetchAuth(r)
  \/ \E r \in BagToSet(fetches), throws \in BOOLEAN : FetchCache(r, throws)
  \/ \E r \in BagToSet(fetches), msg \in RemoteErrorMessages : FetchRemote(r, msg)
  \/ \E t \in BagToSet(retryTimers) : RetryTimerFires(t)
  \/ \E t \in BagToSet(backfillTimers) : BackfillTimerFires(t)

Filtering ==
  \/ OpenFilterModal
  \/ CloseFilterModal
  \/ \E d \in DietaryChoices, a \in AiChoices, c \in CuisineChoices :
        SetTempFilters(d, a, c)
  \/ ApplyFilters
  \/ \E a \in BagToSet(applying) : ApplyFiltersResumes(a, FALSE)
  \/ ClearFilters
  \/ \E a \in BagToSet(applying) : ClearFiltersResumes(a, FALSE)

Favorites ==
  \/ \E mealId \in ToggleArgs : ToggleFavorite(mealId)
  \/ \E c \in BagToSet(toggles), outcome \in { "ok", "error", "throws" },
        msg \in RemoteErrorMessages : ToggleFavoriteSettles(c, outcome, msg)

NextMyMeals ==
  \/ Fetching
  \/ HandleRefresh
  \/ LoadMoreMeals
  \/ \E text \in SearchTexts : HandleSearchChange(text, FALSE)
  \/ Filtering
  \/ SessionChanges
  \/ NetworkChanges

NextFavorites ==
  \/ Fetching
  \/ Favorites
  \/ NetworkChanges

\* the suspended calls of fetchMealsForDate go on
DateFetching ==
  \/ \E r \in BagToSet(dateFetches), how \in { "error", "nouser", "throws" } :
        FetchDateAuth(r, how)
  \/ \E r \in BagToSet(dateFetches), throws \in BOOLEAN : FetchDateCache(r, throws)
  \/ \E r \in BagToSet(dateFetches), outcome \in { "ok", "error", "throws" },
        msg \in PlanErrorMessages : FetchDateRemote(r, outcome, msg)
  \/ \E r \in BagToSet(dateFetches) : FetchDateRetry(r)

NextCalendar ==
  \/ \E date \in Dates : FetchMealsForDate(date)
  \/ DateFetching

\* the loads of both components as they run by themselves (the startup, the
\* suspended calls, the timers), with the session changing; the network is
\* up or down from the start
NextLoads ==
  \/ Fetching
  \/ NextCalendar
  \/ SessionChanges

\* the list is reloaded while its records are toggled
NextReloads ==
  \/ Fetching
  \/ HandleRefresh
  \/ Favorites

Init == InitMyMeals
Next == NextMyMeals
Spec == Init /\ [][Next]_vars
SpecFavorites == Init /\ [][NextFavorites]_vars
SpecReloads == Init /\ [][NextReloads]_vars
SpecLoads == (InitMyMeals \/ InitCalendar) /\ [][NextLoads]_vars

\* MealPlanCalendar from its mount: the timer of the mount effect is
\* pending (calendar.tsx 423-430), the cache holds the plan or nothing
InitWeek ==
  /\ mounted = "MealPlanCalendar"
  /\ BothIdle
  /\ weeks = One(MountTimer)
  /\ planCache \in { [d \in Dates |-> <<>>], [d \in Dates |-> PlanOf(d)] }
  /\ remoteCount = 0
  /\ cachedMeals = <<>>
  /\ storage = EmptyStorage
  /\ online \in BOOLEAN

\* the week on screen is loaded at the mount and reloaded on request, with
\* the session and the network changing
NextWeek ==
  \/ \E w \in BagToSet(weeks) : MountTimerFires(w)
  \/ CalendarHandleRefresh
  \/ \E w \in BagToSet(weeks) : WeekAuth(w)
  \/ \E w \in BagToSet(weeks), thrown \in SUBSET Dates : WeekCache(w, thrown)
  \/ DateFetching
  \/ SessionChanges
  \/ NetworkChanges

SpecWeek == InitWeek /\ [][NextWeek]_vars

\* the week load of the mount by itself, with the session and the network
\* changing
NextMountLoad ==
  \/ \E w \in BagToSet(weeks) : MountTimerFires(w)
  \/ \E w \in BagToSet(weeks) : WeekAuth(w)
  \/ \E w \in BagToSet(weeks), thrown \in SUBSET Dates : WeekCache(w, thrown)
  \/ DateFetching
  \/ SessionChanges
  \/ NetworkChanges

SpecMountLoad == InitWeek /\ [][NextMountLoad]_vars

\* the filter modal with its bound fields
NextBounds ==
  \/ Fetching
  \/ OpenFilterModal
  \/ CloseFilterModal
  \/ SetTempFilters("vegan", "", "")
  \/ \E side \in { "greaterThan", "lessThan" }, text \in TypedTexts :
        TypeBound(TypedFilter, side, text)
  \/ ApplyFilters
  \/ \E a \in BagToSet(applying) : ApplyFiltersResumes(a, FALSE)

SpecBounds == Init /\ [][NextBounds]_vars

\* the filters and the search are changed, with the session ending and the
\* writes to storage failing
NextUnsaved ==
  \/ Fetching
  \/ OpenFilterModal
  \/ SetTempFilters("vegan", "", "")
  \/ ApplyFilters
  \/ \E a \in BagToSet(applying), rejected \in BOOLEAN : ApplyFiltersResumes(a, rejected)
  \/ ClearFilters
  \/ \E a \in BagToSet(applying), rejected \in BOOLEAN : ClearFiltersResumes(a, rejected)
  \/ \E text \in SearchTexts, rejected \in BOOLEAN : HandleSearchChange(text, rejected)
  \/ SessionExpires

SpecUnsaved == Init /\ [][NextUnsaved]_vars

\* ------------------------------------------- the evaluation by itself
\* the longest record sequence evaluated
MaxLen == 3

\* ids whose rows differ in what the filters look at: fat 1, 5, 7, 14,
\* "a" in the name of 5 and in the description of 7 and 14
EvalIds == { 1, 5, 7, 14 }

EvalRecords == UNION { [1..k -> { Meal(id, FALSE) : id \in EvalIds }] : k \in 0..MaxLen }

\* the texts of a bound (meals.tsx 1199-1203, 1214-1218): empty, numbers,
\* not a number
BoundTexts == { <<>>, <<"5">>, <<"1", "4">>, <<"x">> }

\* filter specs: bounds on fat, an upper bound on calories
EvalFilters ==
  { [DefaultFilters EXCEPT ![1] = [@ EXCEPT !.lessThan = c],
                           ![2] = [@ EXCEPT !.greaterThan = g, !.lessThan = l]] :
      g \in BoundTexts, l \in BoundTexts, c \in { <<>>, <<"7", "0", "0">> } }

\* a record collection, a filter spec and a query to evaluate
InitEvaluate ==
  /\ mounted = "MyMeals"
  /\ \E ms \in EvalRecords, fs \in EvalFilters, q \in SearchTexts :
        myMeals = [InitialMyMeals EXCEPT !.meals = ms, !.filters = fs, !.searchQuery = q,
                                         !.filtersLoaded = TRUE, !.loading = FALSE]
  /\ fetches = EmptyBag
  /\ retryTimers = EmptyBag
  /\ backfillTimers = EmptyBag
  /\ toggles = EmptyBag
  /\ applying = EmptyBag
  /\ calendar = InitialCalendar
  /\ dateFetches = EmptyBag
  /\ weeks = EmptyBag
  /\ planCache = [d \in Dates |-> <<>>]
  /\ remotePlan = [d \in Dates |-> PlanOf(d)]
  /\ mutations = EmptyBag
  /\ remoteCount = 0
  /\ remoteFavorite = {}
  /\ cachedMeals = <<>>
  /\ storage = EmptyStorage
  /\ signedIn = TRUE
  /\ online = TRUE
  /\ events = 0
  /\ lastOp = NoOp

\* meals.tsx 539-567: the list is evaluated and setFilteredMeals is called
Evaluates ==
  /\ mounted = "MyMeals"
  /\ myMeals' = [myMeals EXCEPT !.filteredMeals =
                    Evaluate(myMeals.meals, myMeals.filters, myMeals.searchQuery)]
  /\ lastOp' = Op("evaluate", Null, "done")
  /\ UNCHANGED << Environment, fetches, retryTimers, backfillTimers, toggles, applying,
                  remoteFavorite, events >>

SpecEvaluate == InitEvaluate /\ [][Evaluates]_vars

\* the calendar: its loads and its mutations, with the session changing
NextPlan ==
  \/ NextCalendar
  \/ Mutations
  \/ SessionChanges

SpecPlan == InitCalendar /\ [][NextPlan]_vars

\* ================================================================ claims
\* the fetchMyMeals calls in flight that load a further page
LoadMoreInFlight == { r \in BagToSet(fetches) : r.loadMore }

HasDuplicateIds(ms) ==
  \E i, j \in DOMAIN ms : i # j /\ ms[i].id = ms[j].id

\* the toggleFavorite calls in flight for mealId
TogglesInFlight(mealId) == { c \in BagToSet(toggles) : c.mealId = mealId }

\* no categorical filter is set
NoCategorical == << "", "", "" >>

\* the calls of fetchMyMeals a step starts
Issued(before, after) ==
  { r \in BagToSet(after) : r.pc = "auth" /\ CopiesIn(r, after) > CopiesIn(r, before) }

\* the calls of fetchMyMeals a step ends
Ended(before, after) ==
  { r \in BagToSet(before) : CopiesIn(r, after) < CopiesIn(r, before) }

\* C1: in every reachable state at most one fetchMyMeals request for the
\* flat list is in flight, whatever the interleaving of the initial load,
\* the filter-change reload, handleRefresh, loadMoreMeals and the retries.
C1_AtMostOneFetchInFlight == BagCardinality(fetches) <= 1

\* C2: loadMoreMeals invoked again before its first request has settled
\* (also from a pending backfill timer of an earlier render) issues no second
\* page request, and the page is appended once: at most one page request is
\* in flight and no id is twice in the list.
C2_LoadMoreIssuesOneRequest ==
  /\ Cardinality(LoadMoreInFlight) <= 1
  /\ \A r \in LoadMoreInFlight : CopiesIn(r, fetches) = 1
  /\ ~HasDuplicateIds(myMeals.meals)

\* C3: at most MAX_RETRIES automatic retries follow an original attempt: no
\* call in flight and no pending timer is a retry beyond the third of its
\* chain.
C3_AtMostThreeRetries ==
  /\ \A r \in BagToSet(fetches) : r.attempt <= MAX_RETRIES
  /\ \A t \in BagToSet(retryTimers) : t.attempt <= MAX_RETRIES

\* C4: the k-th automatic retry of a chain (k = 0, 1, 2) is scheduled
\* 2^k seconds after the failure, with the mode of the failed request: every
\* timer a step adds belongs to a request that step removed, carries its
\* mode, and waits BACKOFF_BASE_MS * 2^(retries that request already is).
C4_ExponentialBackoff ==
  [][ \A t \in BagToSet(retryTimers') :
        CopiesIn(t, retryTimers') > CopiesIn(t, retryTimers)
        => \E r \in BagToSet(fetches) :
              /\ CopiesIn(r, fetches') < CopiesIn(r, fetches)
              /\ t.isRefresh = r.isRefresh /\ t.loadMore = r.loadMore
              /\ t.attempt = r.attempt + 1
              /\ t.delay = Pow2(r.attempt) * BACKOFF_BASE_MS ]_vars

C6_FailedToggleRollsBack ==
  [][ \A c \in BagToSet(toggles) :
        ( /\ lastOp'.op = "toggleFavoriteSettles"
          /\ lastOp'.outcome \in { "error", "throws" }
          /\ toggles' = toggles (-) One(c) )
        => /\ myMeals'.error # Null
           /\ \A i \in DOMAIN myMeals'.meals :
                 SameId(myMeals'.meals[i], c.mealId)
                 => myMeals'.meals[i].favorite = c.favorite ]_vars

\* C7: toggles of one id are serialized by favoriteLoading: a toggle
\* requested while one for that id is in flight is dropped and changes
\* nothing, so at most one remote update per id is in flight.
C7_OneToggleInFlightPerId ==
  /\ [](\A mealId \in ToggleArgs :
          /\ Cardinality(TogglesInFlight(mealId)) <= 1
          /\ \A c \in TogglesInFlight(mealId) : CopiesIn(c, toggles) = 1)
  /\ [][ (lastOp'.op = "toggleFavorite" /\ TogglesInFlight(lastOp'.arg) # {})
         => /\ lastOp'.outcome = "dropped"
            /\ toggles' = toggles
            /\ myMeals' = myMeals
            /\ remoteFavorite' = remoteFavorite ]_vars

C7_Witness ==
  /\ lastOp.op = "toggleFavorite" /\ lastOp.outcome = "dropped"
  /\ TogglesInFlight(lastOp.arg) # {}

\* C8: toggleFavorite on an id with the prefix "macro_" is a no-op: no
\* remote update is issued, and the list, the in-flight flags and the error
\* are unchanged.
C8_MacroToggleIsNoOp ==
  [][ (lastOp'.op = "toggleFavorite" /\ lastOp'.arg = Macro42)
      => /\ toggles' = toggles
         /\ remoteFavorite' = remoteFavorite
         /\ myMeals'.meals = myMeals.meals
         /\ myMeals'.favoriteLoading = myMeals.favoriteLoading
         /\ myMeals'.error = myMeals.error ]_vars

C8_Witness ==
  /\ lastOp.op = "toggleFavorite" /\ lastOp.arg = Macro42
  /\ lastOp.outcome = "skipped"
  /\ Len(myMeals.meals) > 0

\* C9: toggleFavorite of an id that is not in the local list (and has no
\* toggle in flight) fails with the not-found error: no remote update, every
\* record unchanged, the error set, the in-flight flag of the id released.
C9_AbsentIdFailsNotFound ==
  [][ ( /\ lastOp'.op = "toggleFavorite"
        /\ lastOp'.arg.type = "number"
        /\ Find(myMeals.meals, lastOp'.arg) = {}
        /\ ~myMeals.favoriteLoading[lastOp'.arg] )
      => /\ lastOp'.outcome = "NotFound"
         /\ toggles' = toggles
         /\ remoteFavorite' = remoteFavorite
         /\ myMeals'.meals = myMeals.meals
         /\ myMeals'.error = MealNotFoundMsg
         /\ ~myMeals'.favoriteLoading[lastOp'.arg] ]_vars

C9_Witness ==
  /\ lastOp.op = "toggleFavorite" /\ lastOp.outcome = "NotFound"
  /\ Len(myMeals.meals) > 0
  /\ myMeals.error = MealNotFoundMsg

\* C10: a load of the flat list (initial, filter change or refresh) issued
\* while a categorical filter is set never reads the local cache and queries
\* the remote source with the filters that are set.
C10_CategoricalFilterBypassesCache ==
  \A r \in BagToSet(fetches) :
     (~r.loadMore /\ r.issuedUnder # << "", "", "" >>)
     => /\ r.pc # "cache"
        /\ CategoricalOf(r.c) = r.issuedUnder

\* C11: on an initial load issued while no categorical filter is set, the
\* remote source is queried exactly when the cache read gave nothing or
\* failed: the call reaches the remote query (of page 0) only from a missed
\* cache read, and a cache hit makes the non-empty cached list the
\* collection and ends the call.
C11_CacheFirstOnInitialLoad ==
  [][ /\ \A r \in BagToSet(fetches') :
           ( /\ r.pc = "remote"
             /\ CopiesIn(r, fetches') > CopiesIn(r, fetches)
             /\ ~r.isRefresh /\ ~r.loadMore
             /\ r.issuedUnder = NoCategorical )
           => /\ lastOp'.op = "fetchCache" /\ lastOp'.outcome = "miss"
              /\ PageToLoad(r.loadMore, r.c) = 0
      /\ (lastOp'.op = "fetchCache" /\ lastOp'.outcome = "hit")
           => /\ Len(cachedMeals) > 0
              /\ myMeals'.meals = cachedMeals
              /\ BagCardinality(fetches') = BagCardinality(fetches) - 1 ]_vars

\* C12: a fetched page of fewer than MEALS_PER_PAGE records sets
\* hasMoreMeals false, and no loadMore request is issued (by the list or by
\* a backfill timer) in a state where hasMoreMeals is false.
C12_NoLoadMoreAfterShortPage ==
  [][ /\ \A r \in Ended(fetches, fetches') :
           ( /\ lastOp'.op = "fetchRemote" /\ lastOp'.outcome = "ok"
             /\ Len(QueryOf(r)) < MEALS_PER_PAGE )
           => ~myMeals'.hasMoreMeals
      /\ \A r \in Issued(fetches, fetches') : r.loadMore => myMeals.hasMoreMeals ]_vars

\* C13: a loadMore request never reads the cache and asks for the page after
\* the current one; its success moves currentPage to that page, one further;
\* currentPage never goes down except to 0.
C13_LoadMoreAdvancesOnePage ==
  /\ [](\A r \in BagToSet(fetches) : r.loadMore => r.pc # "cache")
  /\ [][ /\ \A r \in Issued(fetches, fetches') :
             r.loadMore => PageToLoad(TRUE, r.c) = myMeals.currentPage + 1
        /\ \A r \in Ended(fetches, fetches') :
             (r.loadMore /\ lastOp'.op = "fetchRemote" /\ lastOp'.outcome = "ok")
             => myMeals'.currentPage = myMeals.currentPage + 1
        /\ \/ myMeals'.currentPage >= myMeals.currentPage
           \/ myMeals'.currentPage = 0 ]_vars

\* C14: a successful loadMore appends the fetched page to the records
\* already held, which stay as they are and in order, and sets hasMoreMeals
\* to whether the page was full; loadMoreMeals called when hasMoreMeals is
\* false changes nothing.
C14_LoadMoreAppendsPage ==
  [][ /\ \A r \in Ended(fetches, fetches') :
           (r.loadMore /\ lastOp'.op = "fetchRemote" /\ lastOp'.outcome = "ok")
           => /\ myMeals'.meals = myMeals.meals \o QueryOf(r)
              /\ myMeals'.hasMoreMeals = (Len(QueryOf(r)) = MEALS_PER_PAGE)
      /\ (lastOp'.op = "loadMoreMeals" /\ ~myMeals.hasMoreMeals)
           => /\ lastOp'.outcome = "dropped"
              /\ myMeals' = myMeals
              /\ fetches' = fetches
              /\ backfillTimers' = backfillTimers ]_vars

C14_Witness ==
  /\ lastOp.op = "loadMoreMeals" /\ lastOp.outcome = "dropped"
  /\ Len(myMeals.meals) = MEALS_PER_PAGE + ExtraRecords
  /\ myMeals.currentPage = 1
  /\ ~myMeals.hasMoreMeals
  /\ fetches = EmptyBag

\* C15: a step that changes a categorical filter leaves currentPage 0 and
\* hasMoreMeals true and starts a fetch of page 0 that is no loadMore and
\* no refresh and reads the new filters.
C15_FilterChangeResetsCursor ==
  [][ CategoricalOf(myMeals') # CategoricalOf(myMeals)
      => /\ myMeals'.currentPage = 0
         /\ myMeals'.hasMoreMeals
         /\ \E r \in Issued(fetches, fetches') :
               /\ ~r.loadMore /\ ~r.isRefresh
               /\ PageToLoad(r.loadMore, r.c) = 0
               /\ CategoricalOf(r.c) = CategoricalOf(myMeals') ]_vars

C15_Witness ==
  /\ lastOp.op = "applyFilters" /\ lastOp.outcome = "applied"
  /\ CategoricalOf(myMeals) = << "vegan", "not_ai", "" >>
  /\ myMeals.currentPage = 0 /\ myMeals.hasMoreMeals
  /\ \E r \in BagToSet(fetches) :
        r.pc = "auth" /\ ~r.loadMore /\ CategoricalOf(r.c) = CategoricalOf(myMeals)

\* C16: a loadMore request is issued only in a state where loadingMore is
\* false, hasMoreMeals is true and filteredMealsReady is true, and never
\* while an initial load or a refresh is in flight.
C16_LoadMoreOnlyWhenSettled ==
  [][ \A r \in Issued(fetches, fetches') :
        r.loadMore
        => /\ ~myMeals.loadingMore
           /\ myMeals.hasMoreMeals
           /\ myMeals.filteredMealsReady
           /\ \A q \in BagToSet(fetches) : q.loadMore ]_vars

\* C17: the backfill is debounced: evaluations that run again before the
\* delay has elapsed leave one pending backfill trigger, not one each.
C17_OneBackfillTrigger == BagCardinality(backfillTimers) <= 1

\* C18: no response is dropped: the data of every successful load that is
\* no loadMore becomes the collection when its response arrives, also when
\* a load made after it has been answered before it.
C18_LastResponseWins ==
  [][ \A r \in Ended(fetches, fetches') :
        ~r.loadMore
        => /\ (lastOp'.op = "fetchRemote" /\ lastOp'.outcome = "ok")
                => myMeals'.meals = QueryOf(r)
           /\ (lastOp'.op = "fetchCache" /\ lastOp'.outcome = "hit")
                => myMeals'.meals = cachedMeals ]_vars

C18_Witness ==
  /\ lastOp.op \in { "fetchRemote", "fetchCache" }
  /\ lastOp.outcome \in { "ok", "hit" }
  /\ lastOp.arg = <<"overtaken">>
  /\ Len(myMeals.meals) > 0
  /\ fetches = EmptyBag

\* C19: after a mutation of the owner's records (the meals of a date are
\* deleted, a scanned meal is deleted, a scan is saved, a favorite toggle is
\* confirmed by the remote source) a read of the cache does not give the
\* value from before the mutation: a list that getUserMeals gives carries
\* the favorite flags of the remote source, and a list that getMealsForDate
\* gives is the rows the remote source has for the date.
C19_CacheReadIsNotStale ==
  [][ /\ (lastOp'.op = "fetchCache" /\ lastOp'.outcome = "hit")
          => \A i \in DOMAIN cachedMeals' :
                cachedMeals'[i].favorite = (cachedMeals'[i].id \in remoteFavorite')
      /\ (lastOp'.op = "fetchDateCache" /\ lastOp'.outcome = "hit")
          => planCache'[lastOp'.arg] = remotePlan'[lastOp'.arg] ]_vars

\* the mutations of a date that the remote source has done and whose
\* invalidation of the cache is not over
AwaitingInvalidation(date) ==
  { m \in BagToSet(mutations) :
      m.date = date /\ m.pc \in { "getUser", "userId", "invalidate" } }

\* C20: when fetchMealsForDate starts its cache read for a date
\* (getCurrentUserId gave a user), no mutation of that date done by the
\* remote source is still waiting for its invalidation of the cache to
\* complete.
C20_InvalidationBeforeNextRead ==
  [][ (lastOp'.op = "fetchDateAuth" /\ lastOp'.outcome = "ok")
        => AwaitingInvalidation(lastOp'.arg) = {} ]_vars

\* the evaluation has been applied to the inputs of the state
EvaluationDone == lastOp.op = "evaluate"

AllUnset(fs) == \A i \in DOMAIN fs : fs[i].greaterThan = <<>> /\ fs[i].lessThan = <<>>

\* C25: evaluating a record sequence against a filter spec whose numeric
\* bounds are all unset, with the empty query, gives the input sequence: the
\* same members in the same order.
C25_UnsetFiltersAreIdentity ==
  (EvaluationDone /\ AllUnset(myMeals.filters) /\ myMeals.searchQuery = <<>>)
    => myMeals.filteredMeals = myMeals.meals

C25_Witness ==
  /\ EvaluationDone
  /\ AllUnset(myMeals.filters) /\ myMeals.searchQuery = <<>>
  /\ Len(myMeals.meals) = MaxLen
  /\ myMeals.filteredMeals = myMeals.meals

\* the number a bound text stands for
NumberTexts == { <<"5">>, <<"1", "4">>, <<"7", "0", "0">> }
BoundValue(text) ==
  CASE text = <<"5">> -> 5
    [] text = <<"1", "4">> -> 14
    [] text = <<"7", "0", "0">> -> 700

\* g < v < l, an unset bound imposing nothing
Inside(v, g, l) ==
  /\ g = <<>> \/ BoundValue(g) < v
  /\ l = <<>> \/ v < BoundValue(l)

NumbersOrUnset(fs) ==
  \A i \in DOMAIN fs : /\ fs[i].greaterThan \in NumberTexts \cup { <<>> }
                       /\ fs[i].lessThan \in NumberTexts \cup { <<>> }

\* C26: numeric bounds are strict: with the empty query, a record of the
\* collection is in the visible subset exactly when, for every bounded
\* field, its value v and the bounds (g, l) satisfy g < v < l (so v = g and
\* v = l fail); an unset bound imposes no constraint.
C26_BoundsAreStrict ==
  (EvaluationDone /\ myMeals.searchQuery = <<>> /\ NumbersOrUnset(myMeals.filters))
    => \A id \in EvalIds :
          Shows(myMeals.filteredMeals, Meal(id, FALSE))
            <=> /\ Shows(myMeals.meals, Meal(id, FALSE))
                /\ \A i \in DOMAIN myMeals.filters :
                      Inside(NutritionOf(id, myMeals.filters[i].type),
                             myMeals.filters[i].greaterThan, myMeals.filters[i].lessThan)

\* fat bounded by (5, 14): 5 and 14 are hidden, 7 is shown
C26_Witness ==
  /\ EvaluationDone
  /\ myMeals.searchQuery = <<>>
  /\ myMeals.filters[2].greaterThan = <<"5">> /\ myMeals.filters[2].lessThan = <<"1", "4">>
  /\ myMeals.filters[1].lessThan = <<>>
  /\ myMeals.meals = << Meal(5, FALSE), Meal(7, FALSE), Meal(14, FALSE) >>
  /\ myMeals.filteredMeals = << Meal(7, FALSE) >>

RECURSIVE IsSubsequence(_, _)
IsSubsequence(a, b) ==
  IF a = <<>> THEN TRUE
  ELSE IF b = <<>> THEN FALSE
  ELSE IF Head(a) = Head(b) THEN IsSubsequence(Tail(a), Tail(b))
  ELSE IsSubsequence(a, Tail(b))

\* C27: the visible subset is a subsequence of the record collection (no
\* record added, duplicated or reordered); the evaluation leaves the record
\* collection, the filter spec and the query as they were, and evaluating
\* the same inputs again gives the same visible subset.
C27_EvaluationIsPureAndOrdered ==
  /\ [](EvaluationDone => IsSubsequence(myMeals.filteredMeals, myMeals.meals))
  /\ [][ lastOp'.op = "evaluate"
           => /\ myMeals'.meals = myMeals.meals
              /\ myMeals'.filters = myMeals.filters
              /\ myMeals'.searchQuery = myMeals.searchQuery
              /\ EvaluationDone => myMeals'.filteredMeals = myMeals.filteredMeals ]_vars

\* the query "a" over 7, 5, 1: 7 matches by its description, 5 by its name
C27_Witness ==
  /\ EvaluationDone
  /\ myMeals.searchQuery = <<"a">>
  /\ myMeals.meals = << Meal(7, FALSE), Meal(5, FALSE), Meal(1, FALSE) >>
  /\ myMeals.filteredMeals = << Meal(7, FALSE), Meal(5, FALSE) >>

\* C28: applyFilters with a bound that is not a number in the pending input
\* applies nothing: the numeric bounds in use are the ones last put in use,
\* the bounds and the categorical filters in use are left as they were,
\* nothing is written to storage and no fetch is issued.
C28_InvalidBoundBlocksApply ==
  [][ (lastOp'.op = "applyFilters" /\ lastOp'.outcome = "ValidationError")
        => /\ myMeals'.filters = myMeals'.filtersInUse
           /\ myMeals'.filters = myMeals.filters
           /\ CategoricalOf(myMeals') = CategoricalOf(myMeals)
           /\ storage' = storage
           /\ fetches' = fetches ]_vars

\* the filter state: the numeric bounds, the query, the categorical filters
FilterState(s) == << s.filters, s.searchQuery, CategoricalOf(s) >>

\* C29: when the 200ms timer fires before the storage reads have settled,
\* the restoration goes on with the default filters and sets filtersLoaded;
\* afterwards no step applies what the storage holds: in a run where the
\* user changes no filter, the filter state is only ever set by a
\* restoration that got the storage values in time.
C29_RestoreDoesNotWaitForStorage ==
  [][ /\ (lastOp'.op = "restoreFilters" /\ lastOp'.arg = <<"timeout">>)
          => /\ FilterState(myMeals') = FilterState(InitialMyMeals)
             /\ myMeals'.filtersLoaded
      /\ FilterState(myMeals') # FilterState(myMeals)
          => lastOp'.op = "restoreFilters" /\ lastOp'.arg # <<"timeout">> ]_vars

\* the timer won although the storage holds saved bounds
C29_Witness ==
  /\ lastOp.op = "restoreFilters" /\ lastOp.arg = <<"timeout">>
  /\ ~storage.filters.blank
  /\ Parse(storage.filters.value) # DefaultFilters
  /\ myMeals.filtersLoaded
  /\ myMeals.filters = DefaultFilters

\* the step could not save: there is no user, or the write to storage failed
NotSaved(op) ==
  op.outcome \in { "AuthRequired", "unsaved" } \/ op.arg = <<"unsaved">>

\* the step leaves the visible error as it was, or clears it
NoNewError ==
  myMeals'.error \in { myMeals.error, Null }

\* C30: when the search query or the filters cannot be saved in storage
\* (getCurrentUserId gives no user, or the write fails), the step neither
\* puts a message in the visible error nor changes the record collection, and the change
\* itself takes effect: the query typed is the query in use, the pending
\* filters applied are the filters in use, cleared filters stay cleared.
C30_UnsavedChangeIsSwallowed ==
  [][ /\ (lastOp'.op = "handleSearchChange" /\ NotSaved(lastOp'))
          => /\ NoNewError
             /\ myMeals'.meals = myMeals.meals
             /\ myMeals'.filters = myMeals.filters
             /\ CategoricalOf(myMeals') = CategoricalOf(myMeals)
             /\ myMeals'.searchQuery = lastOp'.arg
      /\ (lastOp'.op = "applyFilters" /\ NotSaved(lastOp'))
          => /\ NoNewError
             /\ myMeals'.meals = myMeals.meals
             /\ \E a \in Ended(applying, applying') :
                   /\ myMeals'.filters = a.tempFilters
                   /\ CategoricalOf(myMeals') =
                        << a.tempDietaryRestrictionFilter, a.tempAiFilter, a.tempCuisineFilter >>
      /\ (lastOp'.op = "clearFilters" /\ NotSaved(lastOp'))
          => /\ NoNewError
             /\ myMeals'.meals = myMeals.meals
             /\ myMeals'.filters = DefaultFilters
             /\ CategoricalOf(myMeals') = NoCategorical ]_vars


\* the call of fetchMealsForDate that ended in this step with a list for
\* its caller (no further attempt was scheduled)
Settled(r) ==
  /\ r \in Ended(dateFetches, dateFetches')
  /\ BagCardinality(dateFetches') < BagCardinality(dateFetches)

\* what the call that ended in this step gave its caller
ListGiven(date) ==
  CASE lastOp'.outcome = "ok" -> remotePlan[date]
    [] lastOp'.outcome = "hit" -> planCache[date]
    [] OTHER -> <<>>

\* C21: in a week load, at the step where the last per-date call is over
\* (the join), every date whose call succeeded holds the list that call
\* gave and every date whose call failed holds the empty list, whatever the
\* number of calls that failed; on the path of the missing dates the date
\* of each call holds the list of that call as soon as the call is over.
C21_PartialFailureStillPublishes ==
  [][ \A r \in BagToSet(dateFetches) :
        (Settled(r) /\ r.caller # 0)
          => /\ (WeekOf(r).pc = "fresh" /\ WeekOf(r).pending = {r.date})
                  => \A d \in Dates :
                       calendar'.meals[d] =
                         IF d = r.date THEN ListGiven(d)
                         ELSE IF d \in WeekOf(r).failed THEN <<>>
                         ELSE WeekOf(r).newMeals[d]
             /\ WeekOf(r).pc = "missing"
                  => calendar'.meals[r.date] = ListGiven(r.date) ]_vars

\* the mount load took the fresh path with an empty cache, the call for d1
\* gave the rows of the remote source, the call for d2 failed last, and the
\* week is on screen with the rows of d1
C21_Witness ==
  /\ mounted = "MealPlanCalendar"
  /\ lastOp.op = "fetchDateRemote" /\ lastOp.arg = "d2" /\ lastOp.outcome # "ok"
  /\ weeks = EmptyBag /\ dateFetches = EmptyBag
  /\ planCache["d1"] = <<>>
  /\ ~calendar.isInitialLoading
  /\ calendar.meals["d1"] = remotePlan["d1"] /\ Len(calendar.meals["d1"]) > 0
  /\ calendar.meals["d2"] = <<>>

\* the steps of the call of fetchMealsForWeek with this id: its own, and
\* those of the calls of fetchMealsForDate it made
StepOfWeek(id) ==
  \/ lastOp'.op = "fetchMealsForWeek" /\ lastOp'.arg = id
  \/ \E r \in Ended(dateFetches, dateFetches') : r.caller = id

\* C22: when a week load starts its per-date calls, the calls for all the
\* dates it waits for are in flight after that one step; and as long as the
\* week load still waits for a per-date call, none of its steps changes the
\* lists of the calendar state.
C22_PublishedOnlyAfterJoin ==
  [][ \A w \in BagToSet(weeks') :
        /\ (w.pending # {} /\ lastOp'.op = "fetchMealsForWeek" /\ lastOp'.arg = w.id)
             => \A d \in w.pending :
                  \E r \in BagToSet(dateFetches') : r.date = d /\ r.caller = w.id
        /\ (w.pending # {} /\ StepOfWeek(w.id))
             => calendar'.meals = calendar.meals ]_vars

\* C23: a fetchMealsForDate whose remote read fails is made again as long
\* as fewer than 3 retries were made, after 1000, 2000 and 4000 ms; when the
\* third retry fails the call is over, the error is set and the loading
\* flag of the date is false.
C23_ThreeRetriesWithBackoff ==
  [][ \A r \in Ended(dateFetches, dateFetches') :
        (r.pc = "remote" /\ lastOp'.op = "fetchDateRemote" /\ lastOp'.arg = r.date
           /\ lastOp'.outcome # "ok")
          => IF r.retryCount < 3
               THEN BagIn([r EXCEPT !.pc = "wait",
                                    !.delay = Pow2(r.retryCount) * 1000], dateFetches')
             ELSE /\ Settled(r)
                  /\ ~calendar'.loadingDates[r.date] ]_vars

\* the calls of fetchMealsForDate in flight for a date
InFlightFor(date) ==
  BagCardinality([r \in { q \in BagToSet(dateFetches) : q.date = date }
                    |-> CopiesIn(r, dateFetches)])

\* C24: at most one fetchMealsForDate is in flight for a date, with the
\* mount load, handleRefresh and the retries of a call.
C24_OneFetchPerDate ==
  \A d \in Dates : InFlightFor(d) <= 1


\* C31: the step of handleRefresh leaves the cursor at page 0, hasMoreMeals
\* true and the error cleared, and the one request it issues is a refresh
\* request for page 0.
C31_RefreshResetsCursorFirst ==
  [][ lastOp'.op = "handleRefresh"
        => /\ myMeals'.currentPage = 0
           /\ myMeals'.hasMoreMeals
           /\ myMeals'.error = Null
           /\ \E r \in Issued(fetches, fetches') :
                 /\ r.isRefresh /\ ~r.loadMore
                 /\ PageToLoad(r.loadMore, r.c) = 0
           /\ \A r \in Issued(fetches, fetches') : PageToLoad(r.loadMore, r.c) = 0 ]_vars

\* handleRefresh was called with the cursor past page 0, no more pages and
\* an error on screen
C31_Witness ==
  /\ lastOp.op = "handleRefresh"
  /\ myMeals.currentPage = 0 /\ myMeals.hasMoreMeals /\ myMeals.error = Null
  /\ myMeals.refreshing
  /\ \E r \in BagToSet(fetches) : r.isRefresh /\ r.c.currentPage > 0


\* C32: the step in which the remote update of toggleFavorite(A) settles
\* changes at most the favorite flag of A: the list keeps its length, and
\* every record with another id keeps its place and its values.
C32_ToggleTouchesOnlyItsRecord ==
  [][ \A c \in BagToSet(toggles) :
        (lastOp'.op = "toggleFavoriteSettles" /\ toggles' = toggles (-) One(c))
          => /\ Len(myMeals'.meals) = Len(myMeals.meals)
             /\ \A i \in DOMAIN myMeals.meals :
                   /\ i \in DOMAIN myMeals'.meals
                   /\ myMeals'.meals[i].id = myMeals.meals[i].id
                   /\ ~SameId(myMeals.meals[i], c.mealId)
                        => myMeals'.meals[i] = myMeals.meals[i] ]_vars


\* C33: when the remote update of toggleFavorite(id) has settled and no
\* other toggle of that id is pending, the favorite flag of the record on
\* screen is the one the remote source holds, whether the update was done,
\* gave an error result or was rejected.
C33_SettledFlagIsRemoteFlag ==
  [][ \A c \in BagToSet(toggles) :
        ( /\ lastOp'.op = "toggleFavoriteSettles"
          /\ toggles' = toggles (-) One(c)
          /\ TogglesInFlight(c.mealId) = {c}
          /\ CopiesIn(c, toggles) = 1 )
        => \A i \in DOMAIN myMeals'.meals :
              SameId(myMeals'.meals[i], c.mealId)
                => myMeals'.meals[i].favorite = (c.mealId.n \in remoteFavorite') ]_vars


\* C34: the list never holds two records with the same id, after any
\* sequence of loads, refreshes, changes of categorical filter and loadMore
\* calls; the remote rows do not change and their pages are disjoint.
C34_NoDuplicateIds ==
  ~HasDuplicateIds(myMeals.meals)


\* C35: the numeric bounds the evaluation reads change only in a step of
\* applyFilters that applies, of clearFilters or of the restoration at
\* startup; typing in a bound field of the modal and closing the modal
\* leave them as they are.
C35_BoundsChangeOnlyWhenApplied ==
  [][ myMeals'.filters # myMeals.filters
        => \/ lastOp'.op = "applyFilters" /\ lastOp'.outcome = "applied"
           \/ lastOp'.op = "clearFilters"
           \/ lastOp'.op = "restoreFilters" ]_vars


\* C36: whenever no fetchMyMeals call is in flight and no retry is pending,
\* every record of the list satisfies the categorical filters in use.
C36_ListMatchesActiveFilters ==
  (fetches = EmptyBag /\ retryTimers = EmptyBag)
    => \A i \in DOMAIN myMeals.meals :
          MatchesQuery(myMeals.meals[i].id, myMeals.dietaryRestrictionFilter,
                       myMeals.aiFilter, myMeals.cuisineFilter)


\* the list is refreshed once while its loads run to their end: the
\* suspended calls resume and the timers fire (each await of fetchMyMeals
\* settles, each setTimeout runs), the session may end at any time
NextRefresh ==
  \/ Fetching
  \/ HandleRefresh
  \/ SessionExpires

\* an action of Fetching has something to act on: the startup timer is set,
\* a call is suspended, or a timer is set
FetchingEnabled ==
  \/ ~myMeals.filtersLoaded
  \/ fetches # EmptyBag
  \/ retryTimers # EmptyBag
  \/ backfillTimers # EmptyBag

\* the step taken is one of Fetching
FetchingStep ==
  lastOp'.op \in { "restoreFilters", "fetchAuth", "fetchCache", "fetchRemote",
                   "retryTimer", "backfillTimer" }

\* the startup timer fires; and weak fairness of Fetching, written with
\* FetchingEnabled as its enabling condition: what is suspended or set does
\* run (a run that the bound MaxPending stops is not followed)
FairFetching ==
  /\ WF_vars(\E timeout \in BOOLEAN : RestoreFilters(timeout))
  /\ []<>(~FetchingEnabled) \/ []<><<FetchingStep>>_vars

SpecRefresh == Init /\ [][NextRefresh]_vars /\ FairFetching

\* handleRefresh was called and neither its request nor a retry of it is
\* still to come
RefreshSettled ==
  /\ events = 1
  /\ \A r \in BagToSet(fetches) : ~r.isRefresh
  /\ \A t \in BagToSet(retryTimers) : ~t.isRefresh

\* C37: after handleRefresh, once the refresh request has settled (with a
\* success or with a failure that is not retried), filteredMealsReady
\* becomes true again
C37_ReadyAgainAfterRefresh == RefreshSettled ~> myMeals.filteredMealsReady

\* the refresh ended with an authentication failure, which is not retried,
\* and the list is ready
C37_Witness ==
  /\ RefreshSettled
  /\ lastOp = Op("fetchAuth", Null, "AuthRequired")
  /\ fetches = EmptyBag /\ retryTimers = EmptyBag
  /\ myMeals.error = AuthRequiredMsg
  /\ myMeals.filteredMealsReady


\* the loads run by themselves while every request succeeds: the user is
\* signed in, the network is up, no retry is set; the list may be scrolled
\* to its end once.  The remote source holds one full page, or two and a
\* few records; the stored search or bound leaves few records to show.
BackfillCounts == { MEALS_PER_PAGE, 2 * MEALS_PER_PAGE + ExtraRecords }

BackfillProfiles ==
  { [EmptyStorage EXCEPT !.searchQuery = Item(<<"a">>)],
    [EmptyStorage EXCEPT !.filters = Item(Stringify(CaloriesAbove(<<"4", "0", "0", "0">>)))] }

InitBackfill ==
  /\ mounted = "MyMeals"
  /\ BothIdle
  /\ weeks = EmptyBag
  /\ planCache = [d \in Dates |-> <<>>]
  /\ remoteCount \in BackfillCounts
  /\ cachedMeals \in { <<>>, RemoteRows(remoteCount, {}, "", "", "") }
  /\ storage \in BackfillProfiles
  /\ online = TRUE

NextBackfill ==
  \/ \E timeout \in BOOLEAN : RestoreFilters(timeout)
  \/ \E r \in BagToSet(fetches) : FetchAuth(r)
  \/ \E r \in BagToSet(fetches), throws \in BOOLEAN : FetchCache(r, throws)
  \/ \E r \in BagToSet(fetches) : FetchRemote(r, Null)
  \/ \E t \in BagToSet(backfillTimers) : BackfillTimerFires(t)
  \/ LoadMoreMeals

SpecBackfill == InitBackfill /\ [][NextBackfill]_vars /\ FairFetching

\* no backfill timer is set, no further page is being loaded, and the list
\* has no further page or shows enough records
BackfillStopped ==
  /\ backfillTimers = EmptyBag
  /\ LoadMoreInFlight = {}
  /\ \/ ~myMeals.hasMoreMeals
     \/ Len(myMeals.filteredMeals) >= MIN_VISIBLE

\* C38: when the remote requests succeed, the chain of backfill requests
\* ends: from some point on no backfill timer is set and no further page is
\* being loaded, and hasMoreMeals is false or at least 10 records are shown
C38_BackfillTerminates == <>[]BackfillStopped

\* a chain of two backfill requests has ended after the last page: fewer
\* than 10 records are shown and there is no further page
C38_Witness ==
  /\ BackfillStopped
  /\ fetches = EmptyBag
  /\ lastOp.op = "fetchRemote" /\ lastOp.outcome = "ok"
  /\ myMeals.currentPage = 2
  /\ ~myMeals.hasMoreMeals
  /\ Len(myMeals.filteredMeals) < MIN_VISIBLE
  /\ events = 0


\* C39: when a deleteAllMealsForDate(d) that was confirmed is over, the list
\* of d on screen (the empty list) is the list a remote fetch of d gives
C39_DeletedDateMatchesRemote ==
  [][ \A d \in Dates :
        lastOp' = Op("invalidateDone", d, "deleteAllMealsForDate")
          => /\ calendar'.meals[d] = <<>>
             /\ calendar'.meals[d] = remotePlan'[d] ]_vars


\* both components are refreshed by hand while their loads run; the reads
\* of the cache are answered (none is rejected)
NextRefreshes ==
  \/ \E timeout \in BOOLEAN : RestoreFilters(timeout)
  \/ \E r \in BagToSet(fetches) : FetchAuth(r)
  \/ \E r \in BagToSet(fetches) : FetchCache(r, FALSE)
  \/ \E r \in BagToSet(fetches), msg \in RemoteErrorMessages : FetchRemote(r, msg)
  \/ \E t \in BagToSet(retryTimers) : RetryTimerFires(t)
  \/ \E t \in BagToSet(backfillTimers) : BackfillTimerFires(t)
  \/ HandleRefresh
  \/ \E w \in BagToSet(weeks) : MountTimerFires(w)
  \/ CalendarHandleRefresh
  \/ \E w \in BagToSet(weeks) : WeekAuth(w)
  \/ \E w \in BagToSet(weeks) : WeekCache(w, {})
  \/ \E r \in BagToSet(dateFetches), how \in { "error", "nouser", "throws" } :
        FetchDateAuth(r, how)
  \/ \E r \in BagToSet(dateFetches) : FetchDateCache(r, FALSE)
  \/ \E r \in BagToSet(dateFetches), outcome \in { "ok", "error", "throws" },
        msg \in PlanErrorMessages : FetchDateRemote(r, outcome, msg)
  \/ \E r \in BagToSet(dateFetches) : FetchDateRetry(r)

SpecRefreshes == (InitMyMeals \/ InitWeek) /\ [][NextRefreshes]_vars

\* how many fetchMyMeals calls of a refresh without categorical filter are
\* at the remote query
RefreshQueries(b) ==
  LET atRemote == { r \in BagToSet(b) : /\ r.isRefresh /\ r.pc = "remote"
                                        /\ CategoricalOf(r.c) = NoCategorical }
  IN BagCardinality([r \in atRemote |-> CopiesIn(r, b)])

\* the fetchMealsForDate calls of a refresh of the week that a step brings
\* to the remote queries
RefreshDateQueries(before, after, ws) ==
  { r \in BagToSet(after) :
      /\ r.pc = "remote"
      /\ \E w \in BagToSet(ws) : w.id = r.caller /\ w.isRefresh
      /\ CopiesIn(r, after) > CopiesIn(r, before) }

C40_WeekRefreshedFromCache ==
  /\ mounted = "MealPlanCalendar"
  /\ events = 1
  /\ lastOp.op = "fetchDateCache" /\ lastOp.outcome = "hit"
  /\ weeks = EmptyBag /\ dateFetches = EmptyBag
  /\ Len(planCache["d1"]) > 0
  /\ calendar.meals = planCache


====
